---- MODULE Spec2Model ----
(***************************************************************************)
(* Model of BossDetectionWorker (gui/controllers/teleporter_tab_worker.py):*)
(* the primary loop thread (run), the background recognition workers       *)
(* (_run_ocr) and the stop() call made from the GUI thread.                *)
(*                                                                         *)
(* Time is an integer clock in units of 50 ms (0.35 s = 7, 1.0 s = 20).    *)
(* The program reads time.time(), seconds since the epoch, so the clock    *)
(* starts at StartTime, far from the zero-initialised time stamps.         *)
(***************************************************************************)
EXTENDS Integers, Sequences, FiniteSets, TLC

(* ---- program constants (50 ms units) ---- *)
OCR_INTERVAL == 7
CHECK_COOLDOWN == 200
REVALIDATION_INTERVAL == 6000
SCAN_WATCHDOG == 60
CHECK_WATCHDOG == 20
SCROLL_IDLE == 40
SCROLL_GAP == 20
LIST_DELAY == 10
CHECK_TIMEOUT == 40
RESELECT_TIMEOUT == 100
GRID == 10
LOCK_TOLERANCE == 10
PAUSE_SLEEP == 2
FAST_THRESHOLD == 85            \* hundredths
STRICT_THRESHOLD == 90

(* ---- configuration of the modelled run and bounds of the exploration ---- *)
\* the priority lists a run may be configured with: two targets, or one
TwoTargets == <<"Grota3", "Las">>
OneTarget == <<"Grota3">>
num_channels == 2
stuck_timeout == 60
StartTime == 7000
Horizon == 300
TickStep == 100
\* scrolls between two reversals
MaxScrolls == 4
MaxWorkers == 2
\* set_boss_lock_timeout: ten seconds
boss_lock_timeout == 200
HalfStep == 50                  \* a gap between two ticks longer than CHECK_TIMEOUT

FineStep == 5                   \* a gap between two ticks shorter than OCR_INTERVAL
LongStep == 5996                \* a long gap between two ticks, close to five minutes
MaxTime == StartTime + Horizon
\* the clock readings explored: Horizon units from the start, and Horizon
\* units after one long gap
InHorizon(t) == t \in StartTime..MaxTime \/ t - LongStep \in StartTime..MaxTime
AllMaps == {TwoTargets[i] : i \in 1..Len(TwoTargets)}
STATUS_KEY == "status:dostepny"
MapKey(m) == "map:" \o m

(* ---- what a captured frame shows ---- *)
NoRect == [x |-> -1, y |-> -1, w |-> 0, h |-> 0]
Rects == {[x |-> 3, y |-> 4, w |-> 8, h |-> 6]}
ScrollPositions == {"none", "top", "mid", "bottom"}
OTHER_TEXT == "Sklep"                   \* a list row that is no configured map
NEAR_TEXT == "Grota2"                   \* a list row one numeral away from the first map
Names == AllMaps \cup {OTHER_TEXT}
Frames == [vis : SUBSET Names, avail : Rects \cup {NoRect}, scroll : ScrollPositions]
NoFrame == [vis |-> {}, avail |-> NoRect, scroll |-> "none"]

(* ---- the template cache: key -> raster, and its file ---- *)
\* a raster is named by the text its pixels show
STATUS_TEXT == "dostepny"
Rasters == Names \cup {STATUS_TEXT}
EmptyCache == [k \in {} |-> OTHER_TEXT]
ImageOf(key) == IF key = STATUS_KEY THEN STATUS_TEXT
                ELSE CHOOSE m \in AllMaps : key = MapKey(m)
\* the cache holding, for each of the keys, the raster cut out around its text
Learned(keys) == [k \in keys |-> ImageOf(k)]
Put(tpl, key, img) == [k \in DOMAIN tpl \cup {key} |-> IF k = key THEN img ELSE tpl[k]]

\* pickle.dump: the entries of the dictionary one after the other
RECURSIVE Dump(_)
Dump(tpl) ==
    IF DOMAIN tpl = {} THEN <<>>
    ELSE LET k == CHOOSE k \in DOMAIN tpl : TRUE
         IN <<<<k, tpl[k]>>>> \o Dump([j \in DOMAIN tpl \ {k} |-> tpl[j]])
\* pickle.load: the dictionary rebuilt entry by entry, a later entry replacing
\* an earlier one of the same key
RECURSIVE LoadFrom(_, _)
LoadFrom(bytes, i) ==
    IF i = 0 THEN EmptyCache
    ELSE Put(LoadFrom(bytes, i - 1), bytes[i][1], bytes[i][2])
\* a load that stops after the first entry of the file
LoadFirst(bytes) == LoadFrom(bytes, IF Len(bytes) > 1 THEN 1 ELSE Len(bytes))
Load(bytes) == LoadFrom(bytes, Len(bytes))
NoFile == [kind |-> "absent", bytes |-> <<>>]
TornFile == [kind |-> "torn", bytes |-> <<>>]  \* opened for writing, the dump did not complete
Pickle(bytes) == [kind |-> "pickle", bytes |-> bytes]
\* _load_cached_templates into the empty dictionary of a new instance
load_cached_templates(file) ==
    IF file.kind = "pickle" THEN Load(file.bytes) ELSE EmptyCache
\* _save_cached_templates; out says how far the write got
SaveOutcomes == {"written", "untouched", "torn"}
save_cached_templates(tpl, file, out) ==
    IF out = "written" THEN Pickle(Dump(tpl))
    ELSE IF out = "torn" THEN TornFile ELSE file

(* ---- recognition results ---- *)
NoResult == [ts |-> 0, maps |-> {}, avail |-> NoRect]
Truthy(res) == res.maps # {} \/ res.avail # NoRect

VARIABLES
    now,                        \* wall clock, time.time()
    pc,                         \* position of the loop thread
    frame,                      \* the frame the loop grabbed last
    exited,                     \* why run() returned
    should_stop,
    paused,
    clock_steps,                \* by how much the wall clock moves between two reads of it
    stop_pc,                    \* position of the thread calling stop()
    state,
    state_timer,
    current_map_name,
    current_channel,
    checked_maps,
    is_initial_check,
    ocr_disabled_until_cycle_end,
    locked_boss_roi,
    space_held,
    space_down,                 \* the injected key state of Key.space
    boss_blacklist,
    ignore_stuck,
    dynamic_templates,
    latest_ocr_result,
    last_ocr_time,
    last_target_found_time,
    last_scroll_time,
    last_scroll_finish_time,
    last_revalidation_time,
    scroll_direction,
    scroll_count,               \* scrolls issued since the last reversal
    workers,                    \* _run_ocr threads in flight
    cache_file,                 \* dynamic_templates.pkl on disk
    probe,                      \* what the last call of a query under test returned
    map_priority,               \* the targets of the configuration, most wanted first
    runner,                     \* the TeleporterRunner and its space watchdog
    repo                        \* the TeleporterTemplateRepository, its file and its callers

vars == <<now, pc, frame, exited, should_stop, paused, clock_steps, cache_file, probe, map_priority, stop_pc, state, state_timer,
          current_map_name, current_channel, checked_maps, is_initial_check,
          ocr_disabled_until_cycle_end, locked_boss_roi, space_held, space_down,
          boss_blacklist, ignore_stuck, dynamic_templates, latest_ocr_result,
          last_ocr_time, last_target_found_time, last_scroll_time,
          last_scroll_finish_time, last_revalidation_time, scroll_direction,
          scroll_count, workers, runner, repo>>

\* the configured targets and the templates the loop wants cached for them
Maps == {map_priority[i] : i \in 1..Len(map_priority)}
RequiredTemplates == {MapKey(m) : m \in Maps} \cup {STATUS_KEY}
Configured(list) == map_priority = list

NoMap == "none"
NoLock == [min_x |-> -1, max_x |-> -1, min_y |-> -1, max_y |-> -1]
NotChecked == -1
\* what cv2.matchTemplate and minMaxLoc come back with: raised, or the
\* quality 1 - min_val in hundredths and the place of the best match
NoOutcome == [raises |-> FALSE, quality |-> 0, loc |-> NoRect]
NoProbe == [key |-> "none", threshold |-> 0, out |-> NoOutcome, rect |-> NoRect, conf |-> 0]

(* ---- TeleporterRunner and TeleporterTemplateRepository after construction ---- *)

\* _in_boss_lock, _boss_lock_start_time, the Event and the thread of the
\* space watchdog, the injected state of the space key, and where the frame
\* thread is
NewRunner ==
    [in_boss_lock |-> FALSE, boss_lock_start_time |-> 0,
     space_watchdog_stop |-> FALSE, watchdog |-> "none",
     space |-> "up", pc |-> "frame"]

\* the pickle file (none yet), and for every caller of save_template where it
\* is, the template name it saves and the dictionary it has loaded; before:
\* the names the file held when the running calls began
NoTemplates == [exists |-> FALSE, data |-> {}]
Callers == {"c1", "c2"}
TemplateNames == {"Grota3", "Las", "__boss_indicator__"}
IdleCall == [pc |-> "idle", name |-> "none", templates |-> {}]
NewRepository ==
    [file |-> NoTemplates, calls |-> [c \in Callers |-> IdleCall], before |-> {}]

InitClock(stuck, tpl, steps) ==
    /\ now = StartTime
    /\ pc = "tick"
    /\ frame = NoFrame
    /\ exited = "no"
    /\ should_stop = FALSE
    /\ paused = FALSE
    /\ clock_steps = steps
    /\ stop_pc = "idle"
    /\ state = "SCANNING"
    /\ state_timer = 0
    /\ current_map_name = NoMap
    /\ current_channel = 1
    /\ checked_maps = [m \in Maps |-> NotChecked]
    /\ is_initial_check = FALSE
    /\ ocr_disabled_until_cycle_end = FALSE
    /\ locked_boss_roi = NoLock
    /\ space_held = FALSE
    /\ space_down = FALSE
    /\ boss_blacklist = {}
    /\ ignore_stuck = stuck
    /\ dynamic_templates = tpl
    /\ cache_file = IF tpl = EmptyCache THEN NoFile ELSE Pickle(Dump(tpl))
    /\ probe = NoProbe
    /\ latest_ocr_result = NoResult
    /\ last_ocr_time = 0
    /\ last_target_found_time = 0
    /\ last_scroll_time = 0
    /\ last_scroll_finish_time = 0
    /\ last_revalidation_time = 0
    /\ scroll_direction = 1
    /\ scroll_count = 0
    /\ runner = NewRunner
    /\ repo = NewRepository
    /\ workers = {}

\* ticks follow each other at once or TickStep apart
InitWith(stuck, tpl) == InitClock(stuck, tpl, {0, TickStep})

\* ignore_stuck comes from the configuration; the template cache starts empty
\* or as _load_cached_templates found it on disk
Init ==
    \E list \in {TwoTargets, OneTarget} :
        /\ Configured(list)
        /\ \E stuck \in BOOLEAN, keys \in SUBSET RequiredTemplates : InitWith(stuck, Learned(keys))

(* ---- pure helpers ---- *)

\* a match that asks for more than the threshold
find_above_threshold(tpl, key, threshold, out) ==
    IF key \notin DOMAIN tpl \/ out.raises THEN [rect |-> NoRect, conf |-> 0]
    ELSE IF out.quality > threshold THEN [rect |-> out.loc, conf |-> out.quality]
    ELSE [rect |-> NoRect, conf |-> out.quality]

\* _find_with_template, given what the matching primitive comes back with
find_in_cache(tpl, key, threshold, out) ==
    IF key \notin DOMAIN tpl THEN [rect |-> NoRect, conf |-> 0]
    ELSE IF out.raises THEN [rect |-> NoRect, conf |-> 0]
    ELSE IF out.quality >= threshold THEN [rect |-> out.loc, conf |-> out.quality]
    ELSE [rect |-> NoRect, conf |-> out.quality]

\* the matching primitive on a frame: a perfect match where the frame shows
\* what the raster shows, none elsewhere
match_template(f, img) ==
    IF img = STATUS_TEXT
    THEN [raises |-> FALSE, quality |-> IF f.avail # NoRect THEN 100 ELSE 0, loc |-> f.avail]
    ELSE [raises |-> FALSE, quality |-> IF img \in f.vis THEN 100 ELSE 0,
          loc |-> [x |-> 0, y |-> 0, w |-> 8, h |-> 6]]
ThresholdOf(key) == IF key = STATUS_KEY THEN STRICT_THRESHOLD ELSE FAST_THRESHOLD

\* _find_with_template on a frame: a rectangle exactly when the key is cached
\* and the frame shows the thing at or above the threshold.
find_with_template(f, tpl, key) ==
    IF key \notin DOMAIN tpl THEN NoRect
    ELSE find_in_cache(tpl, key, ThresholdOf(key), match_template(f, tpl[key])).rect

\* a cell taken from the corner of the rectangle
CellOfCorner(x, y, w, h) == <<x \div GRID, y \div GRID>>
\* the quantized centre of a rectangle, as _is_blacklisted computes it
CellOf(x, y, w, h) == <<(x + (w \div 2)) \div GRID, (y + (h \div 2)) \div GRID>>

\* a query that answers from the blacklist only while the boss list is checked
is_blacklisted_while_checking(x, y, w, h) ==
    IF ~ignore_stuck \/ state # "CHECKING_BOSSES" THEN FALSE
    ELSE LET c == CellOf(x, y, w, h) IN
         \E dx \in {-1, 0, 1} : \E dy \in {-1, 0, 1} :
             <<current_map_name, current_channel, c[1] + dx, c[2] + dy>> \in boss_blacklist

\* a query that never finds a region in the blacklist
is_blacklisted_never(x, y, w, h) == FALSE

is_blacklisted(x, y, w, h) ==
    IF ~ignore_stuck THEN FALSE
    ELSE LET c == CellOf(x, y, w, h) IN
         \E dx \in {-1, 0, 1} : \E dy \in {-1, 0, 1} :
             <<current_map_name, current_channel, c[1] + dx, c[2] + dy>> \in boss_blacklist

\* the blacklist key the stuck check builds from the locked region
\* (pixel coordinates are not negative: int() of the half sum is its floor)
BlacklistKey(m, ch, lock) ==
    <<m, ch,
      ((lock.min_x + lock.max_x) \div 2) \div GRID,
      ((lock.min_y + lock.max_y) \div 2) \div GRID>>
StuckKey(lock) == BlacklistKey(current_map_name, current_channel, lock)

LockOf(r) == [min_x |-> r.x, max_x |-> r.x + r.w, min_y |-> r.y, max_y |-> r.y + r.h]

\* a purge that lets an entry go the moment its age reaches the cooldown
PurgeAtCooldown(chk, t) ==
    [m \in Maps |-> IF chk[m] # NotChecked /\ t - chk[m] >= CHECK_COOLDOWN
                    THEN NotChecked ELSE chk[m]]

\* cooldown purge at the top of a SCANNING tick
PurgeExpired(chk, t) ==
    [m \in Maps |-> IF chk[m] # NotChecked /\ t - chk[m] > CHECK_COOLDOWN
                    THEN NotChecked ELSE chk[m]]

(* ---- the name match of the slow path ---- *)
\* the characters of the strings that occur as names and texts
Letters(str) ==
    CASE str = "Grota3" -> <<"G", "r", "o", "t", "a", "3">>
      [] str = "Grota2" -> <<"G", "r", "o", "t", "a", "2">>
      [] str = "Las" -> <<"L", "a", "s">>
      [] str = "Sklep" -> <<"S", "k", "l", "e", "p">>
\* str.lower(), character by character
LowerChar(c) ==
    CASE c = "G" -> "g" [] c = "L" -> "l" [] c = "S" -> "s" [] OTHER -> c
Lower(cs) == [i \in DOMAIN cs |-> LowerChar(cs[i])]
Digits == {"0", "1", "2", "3", "4", "5", "6", "7", "8", "9"}
\* re.findall(r'\d+', s)[-1]: the last maximal run of digits, <<>> if there is none
LastNumeral(cs) ==
    LET at == {i \in DOMAIN cs : cs[i] \in Digits}
    IN IF at = {} THEN <<>>
       ELSE LET hi == CHOOSE i \in at : \A j \in at : j <= i
                lo == CHOOSE i \in at : /\ \A j \in i..hi : j \in at
                                         /\ (i = 1 \/ (i - 1) \notin at)
                                         /\ i <= hi
            IN SubSeq(cs, lo, hi)
Max(a, b) == IF a >= b THEN a ELSE b
\* the longest common subsequence: Levenshtein.ratio(a, b) is
\* 2 * LCS(a, b) / (len(a) + len(b))
RECURSIVE LCS(_, _)
LCS(a, b) ==
    IF a = <<>> \/ b = <<>> THEN 0
    ELSE IF Head(a) = Head(b) THEN 1 + LCS(Tail(a), Tail(b))
    ELSE Max(LCS(Tail(a), b), LCS(a, Tail(b)))
\* every string that is a target name or a recognized text
Texts == Names \cup {NEAR_TEXT}
\* the common-subsequence lengths and the numerals of these strings, tabulated
Common == <<>> @@ [p \in Texts \X Texts |-> LCS(Lower(Letters(p[1])), Lower(Letters(p[2])))]
NumeralOf == <<>> @@ [t \in Texts |-> LastNumeral(Letters(t))]
\* Levenshtein.ratio(text.lower(), name.lower()) > num / 10
RatioAbove(text, name, num) ==
    20 * Common[<<text, name>>] > num * (Len(Letters(text)) + Len(Letters(name)))
\* the numeral test of the SCANNING slow path
NumeralsAgree(text, name) ==
    NumeralOf[name] # <<>> =>
        /\ NumeralOf[text] # <<>>
        /\ NumeralOf[text] = NumeralOf[name]
\* SCANNING: ratio above 0.6 and the numeral test
ScanAccepts(text, name) == RatioAbove(text, name, 6) /\ NumeralsAgree(text, name)
\* RESELECTING_MAP: ratio above 0.8
ReselectAccepts(text, name) == RatioAbove(text, name, 8)

\* slow-path interpretation: the result holds a text matching the map name
SlowMatch(res, m) == \E t \in res.maps : ScanAccepts(t, m)
ReselectMatch(res, m) == \E t \in res.maps : ReselectAccepts(t, m)
\* the text whose box the SCANNING slow path cuts the template from
AcceptedText(res, m) == CHOOSE t \in res.maps : ScanAccepts(t, m)

\* a scan that prefers a template hit anywhere in the list to a text hit
ScanFastFirst(idx, f, tpl, res, chk) ==
    LET free == {i \in idx..Len(map_priority) : chk[map_priority[i]] = NotChecked}
        fast == {i \in free : find_with_template(f, tpl, MapKey(map_priority[i])) # NoRect}
        slow == {i \in free : SlowMatch(res, map_priority[i])}
    IN IF fast # {} THEN [kind |-> "fast", idx |-> CHOOSE i \in fast : \A j \in fast : i <= j]
       ELSE IF slow # {} THEN [kind |-> "slow", idx |-> CHOOSE i \in slow : \A j \in slow : i <= j]
       ELSE [kind |-> "none", idx |-> 0]

\* the priority loop of SCANNING from index idx on: which map is acted on, and how
RECURSIVE ScanFrom(_, _, _, _, _)
ScanFrom(idx, f, tpl, res, chk) ==
    IF idx > Len(map_priority) THEN [kind |-> "none", idx |-> 0]
    ELSE LET m == map_priority[idx] IN
         IF chk[m] # NotChecked THEN ScanFrom(idx + 1, f, tpl, res, chk)
         ELSE IF find_with_template(f, tpl, MapKey(m)) # NoRect
              THEN IF \E hi \in 1..(idx - 1) :
                          /\ chk[map_priority[hi]] = NotChecked
                          /\ find_with_template(f, tpl, MapKey(map_priority[hi])) # NoRect
                   THEN ScanFrom(idx + 1, f, tpl, res, chk)
                   ELSE [kind |-> "fast", idx |-> idx]
              ELSE IF SlowMatch(res, m) THEN [kind |-> "slow", idx |-> idx]
              ELSE ScanFrom(idx + 1, f, tpl, res, chk)

\* _revalidate_templates: drops every status template but the canonical one
\* status keys a cache handed in by the configuration or read from the file
\* may hold besides the canonical one: the indicators "busy" and "unavailable"
BUSY_KEY == "status:zajety"
UNAVAILABLE_KEY == "status:niedostepny"
StatusKeys == {STATUS_KEY, BUSY_KEY, UNAVAILABLE_KEY}
\* the characters of a cache key
KeyLetters(k) ==
    CASE k = STATUS_KEY ->
             <<"s", "t", "a", "t", "u", "s", ":", "d", "o", "s", "t", "e", "p", "n", "y">>
      [] k = BUSY_KEY ->
             <<"s", "t", "a", "t", "u", "s", ":", "z", "a", "j", "e", "t", "y">>
      [] k = UNAVAILABLE_KEY ->
             <<"s", "t", "a", "t", "u", "s", ":", "n", "i", "e",
               "d", "o", "s", "t", "e", "p", "n", "y">>
      [] OTHER -> <<"m", "a", "p", ":">> \o Letters(CHOOSE m \in AllMaps : k = MapKey(m))
\* k.startswith(pre) and `sub in k`
StartsWith(cs, pre) == Len(cs) >= Len(pre) /\ SubSeq(cs, 1, Len(pre)) = pre
Contains(cs, sub) ==
    \E i \in 1..(Len(cs) - Len(sub) + 1) : SubSeq(cs, i, i + Len(sub) - 1) = sub
STATUS_PREFIX == <<"s", "t", "a", "t", "u", "s", ":">>
DOSTEPNY == <<"d", "o", "s", "t", "e", "p", "n", "y">>
keys_to_clear(tpl) ==
    {k \in DOMAIN tpl : /\ StartsWith(KeyLetters(k), STATUS_PREFIX)
                        /\ ~Contains(KeyLetters(k), DOSTEPNY)}
revalidate_templates(tpl) == [k \in DOMAIN tpl \ keys_to_clear(tpl) |-> tpl[k]]

(* ---- the head of a tick: revalidation and worker dispatch ----          *)
(* The clock is read by the loop thread only; it moves between two reads   *)
(* of the loop thread, so now' is the value time.time() returns in a step. *)
RevalDue == now' - last_revalidation_time > REVALIDATION_INTERVAL
TplAfterReval == IF RevalDue THEN revalidate_templates(dynamic_templates) ELSE dynamic_templates
OcrTimeAfterReval == IF RevalDue THEN 0 ELSE last_ocr_time

\* a loop without the two watchdogs: only a missing template asks for the engine
OcrNeededNoWatchdog ==
    /\ RequiredTemplates \ DOMAIN TplAfterReval # {}
    /\ ~ocr_disabled_until_cycle_end

OcrNeeded ==
    LET missing == RequiredTemplates \ DOMAIN TplAfterReval
        n0 == missing # {}
        n1 == IF ocr_disabled_until_cycle_end THEN FALSE ELSE n0
        n2 == IF ~n1 /\ state = "SCANNING" /\ ~ocr_disabled_until_cycle_end
                 /\ now' - last_target_found_time > SCAN_WATCHDOG
              THEN TRUE ELSE n1
        n3 == IF ~n2 /\ state = "CHECKING_BOSSES" /\ now' - state_timer > CHECK_WATCHDOG
              THEN TRUE ELSE n2
    IN n3

Dispatch == OcrNeeded /\ now' - OcrTimeAfterReval >= OCR_INTERVAL
OcrTimeAfterDispatch == IF Dispatch THEN now' ELSE OcrTimeAfterReval

\* what the engine reads off the frame handed to a worker
Recognize(f, t) == [ts |-> t, maps |-> f.vis, avail |-> f.avail]

\* a loop that takes no notice of the pause flag
TickingAlways == TRUE
\* the pause branch at the top of the loop body is not taken
Ticking == ~paused

TickHead(f) ==
    /\ pc = "tick"
    /\ ~should_stop
    /\ Ticking
    /\ \E d \in clock_steps : now' = now + d
    /\ InHorizon(now')
    /\ frame' = f
    /\ last_revalidation_time' = IF RevalDue THEN now' ELSE last_revalidation_time
    /\ last_ocr_time' = OcrTimeAfterDispatch
    /\ Dispatch => Cardinality(workers) < MaxWorkers
    /\ workers' = IF Dispatch
                  THEN workers \cup {[ts |-> now', res |-> Recognize(f, now'), pc |-> "ocr"]}
                  ELSE workers

\* the end of a tick: back to the top of the loop
TickEnd ==
    /\ pc' = "tick"
    /\ UNCHANGED exited

\* a loop that runs the state machine whatever the recognition slot holds
GateAlways == TRUE
Gate == Truthy(latest_ocr_result) /\ map_priority # <<>>

(* ---- ticks of the primary loop, one action per state handler ---- *)

\* a tick whose state-machine block is skipped: no usable recognition result
TickIdle(f) ==
    /\ TickHead(f)
    /\ ~Gate
    /\ TickEnd
    /\ dynamic_templates' = TplAfterReval
    /\ UNCHANGED <<should_stop, stop_pc, ignore_stuck, paused, clock_steps, cache_file, probe, map_priority, state, state_timer,
                   current_map_name, current_channel, checked_maps, is_initial_check,
                   ocr_disabled_until_cycle_end, locked_boss_roi, space_held, space_down,
                   boss_blacklist, latest_ocr_result, last_target_found_time,
                   last_scroll_time, last_scroll_finish_time, scroll_direction, scroll_count, runner, repo>>

\* the boundary tests of the scroll logic: the icon in the bottom tenth while
\* scrolling down, the icon in the top tenth while scrolling up
AtBottomGoingDown(pos, dir) == pos = "bottom" /\ dir = 1
AtTopGoingDown(pos, dir) == pos = "top" /\ dir = 1
AtTopGoingUp(pos, dir) == pos = "top" /\ dir = -1

\* a scroll logic that does not wait between two scrolls
ScrollGapAlways(t) == TRUE
\* a reversal that leaves the scroll counter running
CountKept(reversed) == scroll_count
\* self.scroll_count = 0 in both reversal branches
CountAfterTick(reversed) == IF reversed THEN 0 ELSE scroll_count

\* has the last scroll been started more than a second before t?
ScrollGapOver(t) == t - last_scroll_time > SCROLL_GAP

\* STATE: SCANNING. clickOk / dragOk: the input injection did not throw.
TickScanning(f, clickOk, dragOk) ==
    /\ TickHead(f)
    /\ Gate
    /\ state = "SCANNING"
    /\ LET chk == PurgeExpired(checked_maps, now')
           pick == ScanFrom(1, f, TplAfterReval, latest_ocr_result, chk)
           m == IF pick.kind = "none" THEN NoMap ELSE map_priority[pick.idx]
           found_target == pick.kind = "slow" \/ (pick.kind = "fast" /\ clickOk)
           selected == pick.kind # "none" /\ clickOk
           ltf == IF found_target THEN now' ELSE last_target_found_time
           wantScroll == ~found_target /\ now' - ltf > SCROLL_IDLE /\ f.scroll # "none"
           reverseUp == wantScroll /\ AtBottomGoingDown(f.scroll, scroll_direction)
           reverseDown == wantScroll /\ ~reverseUp /\ AtTopGoingUp(f.scroll, scroll_direction)
           doScroll == /\ wantScroll /\ ~reverseUp /\ ~reverseDown
                       /\ ScrollGapOver(now')
                       /\ dragOk
       IN /\ dynamic_templates' = IF pick.kind = "slow"
                                  THEN Put(TplAfterReval, MapKey(m), AcceptedText(latest_ocr_result, m))
                                  ELSE TplAfterReval
          /\ last_target_found_time' = ltf
          /\ checked_maps' = IF selected THEN [chk EXCEPT ![m] = now'] ELSE chk
          /\ current_map_name' = IF selected THEN m ELSE current_map_name
          /\ state' = IF selected THEN "WAITING_FOR_BOSS_LIST" ELSE state
          /\ state_timer' = IF selected THEN now' ELSE state_timer
          /\ current_channel' = IF selected THEN 1 ELSE current_channel
          /\ is_initial_check' = IF selected THEN TRUE ELSE is_initial_check
          /\ scroll_direction' = IF reverseUp THEN -1
                                 ELSE IF reverseDown THEN 1 ELSE scroll_direction
          /\ scroll_count' = CountAfterTick(reverseUp \/ reverseDown)
          /\ doScroll => scroll_count < MaxScrolls
          /\ UNCHANGED <<runner, repo>>
          /\ IF doScroll
             THEN \* the drag is under way; the loop thread is inside dragRel
                  /\ pc' = "drag"
                  /\ last_scroll_time' = now'
                  /\ UNCHANGED exited
             ELSE /\ TickEnd
                  /\ UNCHANGED last_scroll_time
    /\ UNCHANGED <<should_stop, stop_pc, ignore_stuck, paused, clock_steps, cache_file, probe, map_priority,
                   ocr_disabled_until_cycle_end, locked_boss_roi, space_held, space_down,
                   boss_blacklist, latest_ocr_result, last_scroll_finish_time>>

\* the rest of the scroll action once the drag has returned: stamp the finish
\* time, drop the current recognition result, finish the tick
ScrollFinish ==
    /\ pc = "drag"
    /\ \E d \in clock_steps : now' = now + d
    /\ InHorizon(now')
    /\ last_scroll_finish_time' = now'
    /\ latest_ocr_result' = NoResult
    /\ scroll_count' = scroll_count + 1
    /\ UNCHANGED <<runner, repo>>
    /\ TickEnd
    /\ UNCHANGED <<frame, should_stop, stop_pc, ignore_stuck, paused, clock_steps, cache_file, probe, map_priority, state, state_timer,
                   current_map_name, current_channel, checked_maps, is_initial_check,
                   ocr_disabled_until_cycle_end, locked_boss_roi, space_held, space_down,
                   boss_blacklist, dynamic_templates, last_ocr_time,
                   last_target_found_time, last_scroll_time, last_revalidation_time,
                   scroll_direction, workers>>

\* STATE: RESELECTING_MAP
TickReselecting(f, clickOk, clickOk2) ==
    /\ TickHead(f)
    /\ Gate
    /\ state = "RESELECTING_MAP"
    /\ LET byTemplate == find_with_template(f, TplAfterReval, MapKey(current_map_name)) # NoRect
           found1 == byTemplate /\ clickOk
           byOcr == ~found1 /\ ReselectMatch(latest_ocr_result, current_map_name)
           found_target == found1 \/ (byOcr /\ clickOk2)
           timeout == ~found_target /\ now' - state_timer > RESELECT_TIMEOUT
       IN /\ state' = IF found_target THEN "WAITING_FOR_BOSS_LIST"
                      ELSE IF timeout THEN "SCANNING" ELSE state
          /\ state_timer' = IF found_target THEN now' ELSE state_timer
          /\ (~byTemplate => clickOk) /\ (~byOcr => clickOk2)
    /\ TickEnd
    /\ dynamic_templates' = TplAfterReval
    /\ UNCHANGED <<should_stop, stop_pc, ignore_stuck, paused, clock_steps, cache_file, probe, map_priority,
                   current_map_name, current_channel, checked_maps, is_initial_check,
                   ocr_disabled_until_cycle_end, locked_boss_roi, space_held, space_down,
                   boss_blacklist, latest_ocr_result, last_target_found_time,
                   last_scroll_time, last_scroll_finish_time, scroll_direction, scroll_count, runner, repo>>

\* STATE: WAITING_FOR_BOSS_LIST
TickWaiting(f) ==
    /\ TickHead(f)
    /\ Gate
    /\ state = "WAITING_FOR_BOSS_LIST"
    /\ IF now' - state_timer > LIST_DELAY
       THEN state' = "CHECKING_BOSSES" /\ state_timer' = now'
       ELSE UNCHANGED <<state, state_timer>>
    /\ TickEnd
    /\ dynamic_templates' = TplAfterReval
    /\ UNCHANGED <<should_stop, stop_pc, ignore_stuck, paused, clock_steps, cache_file, probe, map_priority,
                   current_map_name, current_channel, checked_maps, is_initial_check,
                   ocr_disabled_until_cycle_end, locked_boss_roi, space_held, space_down,
                   boss_blacklist, latest_ocr_result, last_target_found_time,
                   last_scroll_time, last_scroll_finish_time, scroll_direction, scroll_count, runner, repo>>

\* a timeout that finds channels left and stays on the one it is on
ChannelStays(reset, more) == IF reset THEN 1 ELSE current_channel
\* the channel cursor after a CHECKING_BOSSES tick: back to 1, one on, or as it was
ChannelAfter(reset, more) ==
    IF reset THEN 1 ELSE IF more THEN current_channel + 1 ELSE current_channel
\* a cycle that never runs out of channels
MoreChannelsAlways == TRUE
\* are there channels of this map left to check?
MoreChannels == current_channel < num_channels
\* a loop that treats every configuration as one of several maps
SingleMapNever == FALSE
\* one map configured: cycle its channels without going back to the scan
SingleMapMode == Len(map_priority) = 1

\* STATE: CHECKING_BOSSES. clickOk: the click injection did not throw.
\* A template match that is not blacklisted is verified by a call of the
\* recognition engine on the matched region, made by the loop thread itself:
\* the tick waits in it (pc = "verify"). A blacklisted match is dropped; the
\* slow path and the timeout run only on a tick without any template match.
TickChecking(f, clickOk) ==
    /\ TickHead(f)
    /\ Gate
    /\ state = "CHECKING_BOSSES"
    /\ LET tpl == TplAfterReval
           rect == find_with_template(f, tpl, STATUS_KEY)
           fast == rect # NoRect
           verifying == fast /\ ~is_blacklisted(rect.x, rect.y, rect.w, rect.h)
           slow == ~fast /\ OcrTimeAfterDispatch > state_timer
           box == latest_ocr_result.avail
           is_match == slow /\ box # NoRect
           usable == is_match /\ ~is_blacklisted(box.x, box.y, box.w, box.h)
           found_boss == usable /\ clickOk
           timeout == slow /\ ~found_boss /\ now' - state_timer > CHECK_TIMEOUT
           first == timeout /\ is_initial_check
           more == timeout /\ ~first /\ MoreChannels
           wrap == timeout /\ ~first /\ ~more /\ SingleMapMode
           done == timeout /\ ~first /\ ~more /\ ~wrap
       IN /\ dynamic_templates' = IF usable THEN Put(tpl, STATUS_KEY, STATUS_TEXT) ELSE tpl
          /\ state' = IF found_boss THEN "MONITORING_BOSS"
                      ELSE IF first \/ more \/ wrap THEN "CHANGING_CHANNEL"
                      ELSE IF done THEN "SCANNING" ELSE state
          /\ locked_boss_roi' = IF found_boss THEN LockOf(box) ELSE locked_boss_roi
          /\ state_timer' = IF found_boss \/ first \/ more \/ wrap THEN now' ELSE state_timer
          /\ is_initial_check' = IF first THEN FALSE ELSE is_initial_check
          /\ current_channel' = ChannelAfter(first \/ wrap \/ done, more)
          /\ checked_maps' = IF done THEN [checked_maps EXCEPT ![current_map_name] = now']
                             ELSE checked_maps
          /\ ocr_disabled_until_cycle_end' = IF done THEN FALSE ELSE ocr_disabled_until_cycle_end
          /\ pc' = IF verifying THEN "verify" ELSE "tick"
          /\ (~found_boss /\ ~usable) => clickOk
    /\ UNCHANGED <<exited, should_stop, stop_pc, ignore_stuck, paused, clock_steps, cache_file, probe, map_priority, current_map_name,
                   space_held, space_down, boss_blacklist, latest_ocr_result,
                   last_target_found_time, last_scroll_time, last_scroll_finish_time,
                   scroll_direction, scroll_count, runner, repo>>

\* self.ocr(text_roi) has returned to the loop thread. verify: the text it
\* read lets the match stand; clickOk: the click injection did not throw.
VerifyReturn(verify, clickOk) ==
    /\ pc = "verify"
    /\ \E d \in clock_steps : now' = now + d
    /\ InHorizon(now')
    /\ LET rect == find_with_template(frame, dynamic_templates, STATUS_KEY)
           fastLock == verify /\ clickOk
       IN /\ state' = IF fastLock THEN "MONITORING_BOSS" ELSE state
          /\ locked_boss_roi' = IF fastLock THEN LockOf(rect) ELSE locked_boss_roi
          /\ state_timer' = IF fastLock THEN now' ELSE state_timer
          /\ ~verify => clickOk
    /\ TickEnd
    /\ UNCHANGED <<frame, should_stop, stop_pc, ignore_stuck, paused, clock_steps, cache_file, probe, map_priority,
                   current_map_name, current_channel, checked_maps, is_initial_check,
                   ocr_disabled_until_cycle_end, space_held, space_down, boss_blacklist,
                   dynamic_templates, latest_ocr_result, last_ocr_time,
                   last_target_found_time, last_scroll_time, last_scroll_finish_time,
                   last_revalidation_time, scroll_direction, scroll_count, runner, repo, workers>>

\* is the confirmation indicator still inside the locked region?
InCrop(r, lock) ==
    /\ r # NoRect
    /\ r.x >= lock.min_x - LOCK_TOLERANCE /\ r.x + r.w <= lock.max_x + LOCK_TOLERANCE
    /\ r.y >= lock.min_y - LOCK_TOLERANCE /\ r.y + r.h <= lock.max_y + LOCK_TOLERANCE

CentreIn(r, lock) ==
    /\ r # NoRect
    /\ 2 * lock.min_x <= 2 * r.x + r.w /\ 2 * r.x + r.w <= 2 * lock.max_x
    /\ 2 * lock.min_y <= 2 * r.y + r.h /\ 2 * r.y + r.h <= 2 * lock.max_y

StillAvailable(f, tpl, res, lock) ==
    IF STATUS_KEY \in DOMAIN tpl THEN InCrop(find_with_template(f, tpl, STATUS_KEY), lock)
    ELSE IF Truthy(res) THEN CentreIn(res.avail, lock)
    ELSE FALSE

\* an exit of MONITORING_BOSS that keeps the region it had locked
ReleasedLockKept(roi) == roi
\* self.locked_boss_roi = None on the exit of MONITORING_BOSS
ReleasedLock(roi) == NoLock

\* the status check that ends a MONITORING_BOSS tick; held / down: the key
\* state after the engagement-key block; relOk: keyboard.release did not throw
MonitorCheck(f, tpl, held, down, relOk) ==
    LET gone == ~StillAvailable(f, tpl, latest_ocr_result, locked_boss_roi)
        released == gone /\ held /\ relOk
    IN /\ space_held' = IF released THEN FALSE ELSE held
       /\ space_down' = IF released THEN FALSE ELSE down
       /\ state' = IF gone THEN "CHECKING_BOSSES" ELSE state
       /\ state_timer' = IF gone THEN now' ELSE state_timer
       /\ locked_boss_roi' = IF gone THEN ReleasedLock(locked_boss_roi) ELSE locked_boss_roi

\* the stuck-boss test at the top of a MONITORING_BOSS tick read at time t
IsStuck(t) == ignore_stuck /\ t - state_timer > stuck_timeout

\* STATE: MONITORING_BOSS
TickMonitoring(f, relOk) ==
    /\ TickHead(f)
    /\ Gate
    /\ state = "MONITORING_BOSS"
    /\ dynamic_templates' = TplAfterReval
    /\ IF IsStuck(now')
       THEN \* stuck boss: blacklist, release, back to checking, `continue`
            /\ boss_blacklist' = IF locked_boss_roi # NoLock
                                 THEN boss_blacklist \cup {StuckKey(locked_boss_roi)}
                                 ELSE boss_blacklist
            /\ space_held' = IF space_held /\ relOk THEN FALSE ELSE space_held
            /\ space_down' = IF space_held /\ relOk THEN FALSE ELSE space_down
            /\ state' = "CHECKING_BOSSES"
            /\ state_timer' = now'
            /\ locked_boss_roi' = NoLock
            /\ pc' = "tick"
            /\ UNCHANGED <<exited, ocr_disabled_until_cycle_end>>
       ELSE IF ~space_held
       THEN \* the engagement-key block starts with time.sleep(1)
            /\ pc' = "press" /\ relOk
            /\ UNCHANGED <<exited, boss_blacklist, space_held, space_down, state,
                           state_timer, locked_boss_roi, ocr_disabled_until_cycle_end>>
       ELSE /\ MonitorCheck(f, TplAfterReval, space_held, space_down, relOk)
            /\ TickEnd
            /\ UNCHANGED <<boss_blacklist, ocr_disabled_until_cycle_end>>
    /\ UNCHANGED <<should_stop, stop_pc, ignore_stuck, paused, clock_steps, cache_file, probe, map_priority, current_map_name,
                   current_channel, checked_maps, is_initial_check, latest_ocr_result,
                   last_target_found_time, last_scroll_time, last_scroll_finish_time,
                   scroll_direction, scroll_count, runner, repo>>

\* the engagement keys after the sleep: press the secondary key, hold space,
\* then the status check of the same tick. pressOk: no injection threw.
MonitorPress(pressOk, relOk) ==
    /\ pc = "press"
    /\ \E d \in clock_steps : now' = now + d
    /\ InHorizon(now')
    /\ MonitorCheck(frame, dynamic_templates,
                    IF pressOk THEN TRUE ELSE space_held,
                    IF pressOk THEN TRUE ELSE space_down, relOk)
    /\ ocr_disabled_until_cycle_end' = IF pressOk THEN TRUE ELSE ocr_disabled_until_cycle_end
    /\ TickEnd
    /\ UNCHANGED <<frame, should_stop, stop_pc, ignore_stuck, paused, clock_steps, cache_file, probe, map_priority, current_map_name,
                   current_channel, checked_maps, is_initial_check, boss_blacklist,
                   dynamic_templates, latest_ocr_result, last_ocr_time,
                   last_target_found_time, last_scroll_time, last_scroll_finish_time,
                   last_revalidation_time, scroll_direction, scroll_count, runner, repo, workers>>

\* STATE: CHANGING_CHANNEL. keysOk: the key sequence did not throw.
TickChanging(f, keysOk) ==
    /\ TickHead(f)
    /\ Gate
    /\ state = "CHANGING_CHANNEL"
    /\ IF keysOk
       THEN /\ state' = "RESELECTING_MAP"
            /\ state_timer' = now'
            /\ UNCHANGED current_channel
       ELSE /\ state' = "SCANNING"
            /\ current_channel' = 1
            /\ UNCHANGED state_timer
    /\ TickEnd
    /\ dynamic_templates' = TplAfterReval
    /\ UNCHANGED <<should_stop, stop_pc, ignore_stuck, paused, clock_steps, cache_file, probe, map_priority, current_map_name,
                   checked_maps, is_initial_check, ocr_disabled_until_cycle_end,
                   locked_boss_roi, space_held, space_down, boss_blacklist,
                   latest_ocr_result, last_target_found_time, last_scroll_time,
                   last_scroll_finish_time, scroll_direction, scroll_count, runner, repo>>

(* ---- the loop leaves run() ---- *)

\* `while not self.should_stop` fails at the top of the loop
LoopExit ==
    /\ pc = "tick"
    /\ should_stop
    /\ pc' = "done"
    /\ exited' = "stop"
    /\ UNCHANGED <<now, frame, should_stop, stop_pc, state, state_timer,
                   current_map_name, current_channel, checked_maps, is_initial_check,
                   ocr_disabled_until_cycle_end, locked_boss_roi, space_held, space_down,
                   boss_blacklist, ignore_stuck, paused, clock_steps, cache_file, probe, map_priority, dynamic_templates, latest_ocr_result,
                   last_ocr_time, last_target_found_time, last_scroll_time,
                   last_scroll_finish_time, last_revalidation_time, scroll_direction, scroll_count, runner, repo,
                   workers>>

\* a statement of the loop body outside every try block raises (preprocessing,
\* state handling, preview): nothing in run() catches it
TickRaises ==
    /\ pc = "tick"
    /\ ~should_stop
    /\ Ticking
    /\ pc' = "done"
    /\ exited' = "exception"
    /\ UNCHANGED <<now, frame, should_stop, stop_pc, state, state_timer,
                   current_map_name, current_channel, checked_maps, is_initial_check,
                   ocr_disabled_until_cycle_end, locked_boss_roi, space_held, space_down,
                   boss_blacklist, ignore_stuck, paused, clock_steps, cache_file, probe, map_priority, dynamic_templates, latest_ocr_result,
                   last_ocr_time, last_target_found_time, last_scroll_time,
                   last_scroll_finish_time, last_revalidation_time, scroll_direction, scroll_count, runner, repo,
                   workers>>

(* ---- _run_ocr, one thread per dispatch ---- *)

\* self.ocr(img) raises: the worker returns without touching the slot
WorkerFails(w) ==
    /\ w \in workers
    /\ w.pc = "ocr"
    /\ workers' = workers \ {w}
    /\ UNCHANGED <<now, pc, frame, exited, should_stop, stop_pc, state, state_timer,
                   current_map_name, current_channel, checked_maps, is_initial_check,
                   ocr_disabled_until_cycle_end, locked_boss_roi, space_held, space_down,
                   boss_blacklist, ignore_stuck, paused, clock_steps, cache_file, probe, map_priority, dynamic_templates, latest_ocr_result,
                   last_ocr_time, last_target_found_time, last_scroll_time,
                   last_scroll_finish_time, last_revalidation_time, scroll_direction, scroll_count, runner, repo>>

\* recognition done; under ocr_lock, the staleness test
WorkerChecks(w) ==
    /\ w \in workers
    /\ w.pc = "ocr"
    /\ \A o \in workers : o.pc # "store"
    /\ workers' = IF w.ts > last_scroll_finish_time
                  THEN (workers \ {w}) \cup {[w EXCEPT !.pc = "store"]}
                  ELSE workers \ {w}
    /\ UNCHANGED <<now, pc, frame, exited, should_stop, stop_pc, state, state_timer,
                   current_map_name, current_channel, checked_maps, is_initial_check,
                   ocr_disabled_until_cycle_end, locked_boss_roi, space_held, space_down,
                   boss_blacklist, ignore_stuck, paused, clock_steps, cache_file, probe, map_priority, dynamic_templates, latest_ocr_result,
                   last_ocr_time, last_target_found_time, last_scroll_time,
                   last_scroll_finish_time, last_revalidation_time, scroll_direction, scroll_count, runner, repo>>

\* still under ocr_lock: self.latest_ocr_result = result
WorkerStores(w) ==
    /\ w \in workers
    /\ w.pc = "store"
    /\ latest_ocr_result' = IF Truthy(w.res) THEN w.res ELSE NoResult
    /\ workers' = workers \ {w}
    /\ UNCHANGED <<now, pc, frame, exited, should_stop, stop_pc, state, state_timer,
                   current_map_name, current_channel, checked_maps, is_initial_check,
                   ocr_disabled_until_cycle_end, locked_boss_roi, space_held, space_down,
                   boss_blacklist, ignore_stuck, paused, clock_steps, cache_file, probe, map_priority, dynamic_templates,
                   last_ocr_time, last_target_found_time, last_scroll_time,
                   last_scroll_finish_time, last_revalidation_time, scroll_direction, scroll_count, runner, repo>>

(* ---- a caller of _find_with_template: rect, conf = self._find_with_template(...) ---- *)
CallFind(key, threshold, out) ==
    /\ pc = "tick"
    /\ probe' = [key |-> key, threshold |-> threshold, out |-> out,
                 rect |-> find_in_cache(dynamic_templates, key, threshold, out).rect,
                 conf |-> find_in_cache(dynamic_templates, key, threshold, out).conf]
    /\ UNCHANGED <<now, pc, frame, exited, should_stop, paused, stop_pc, state, state_timer,
                   current_map_name, current_channel, checked_maps, is_initial_check,
                   ocr_disabled_until_cycle_end, locked_boss_roi, space_held, space_down,
                   boss_blacklist, ignore_stuck, clock_steps, cache_file, map_priority,
                   dynamic_templates, latest_ocr_result, last_ocr_time,
                   last_target_found_time, last_scroll_time, last_scroll_finish_time,
                   last_revalidation_time, scroll_direction, scroll_count, runner, repo, workers>>

(* ---- a caller of _is_blacklisted: if self._is_blacklisted(x, y, w, h) ---- *)
CallIsBlacklisted(r) ==
    /\ pc = "tick"
    /\ probe = NoProbe
    /\ probe' = [rect |-> r, hit |-> is_blacklisted(r.x, r.y, r.w, r.h)]
    /\ UNCHANGED <<now, pc, frame, exited, should_stop, paused, stop_pc, state, state_timer,
                   current_map_name, current_channel, checked_maps, is_initial_check,
                   ocr_disabled_until_cycle_end, locked_boss_roi, space_held, space_down,
                   boss_blacklist, ignore_stuck, clock_steps, cache_file, map_priority,
                   dynamic_templates, latest_ocr_result, last_ocr_time,
                   last_target_found_time, last_scroll_time, last_scroll_finish_time,
                   last_revalidation_time, scroll_direction, scroll_count, runner, repo, workers>>

(* ---- TeleporterRunner: the frame thread and the space watchdog ---- *)

\* everything of the BossDetectionWorker but the wall clock
TabWorkerVars ==
    <<pc, frame, exited, should_stop, paused, clock_steps, cache_file, probe, map_priority,
      stop_pc, state, state_timer, current_map_name, current_channel, checked_maps,
      is_initial_check, ocr_disabled_until_cycle_end, locked_boss_roi, space_held,
      space_down, boss_blacklist, ignore_stuck, dynamic_templates, latest_ocr_result,
      last_ocr_time, last_target_found_time, last_scroll_time, last_scroll_finish_time,
      last_revalidation_time, scroll_direction, scroll_count, workers>>

\* _process_frame_cycle outside boss lock. clicked: a map and then the boss
\* indicator were matched and clicked, so _after_boss_teleport runs: key 4,
\* keyDown('space'), the lock flag and its start time; the watchdog is
\* started next
ProcessFrame(clicked) ==
    /\ runner.pc = "frame"
    /\ ~runner.in_boss_lock
    /\ \E d \in clock_steps : now' = now + d
    /\ InHorizon(now')
    /\ runner' = IF clicked
                 THEN [runner EXCEPT !.space = "down", !.in_boss_lock = TRUE,
                                     !.boss_lock_start_time = now', !.pc = "start_watchdog"]
                 ELSE runner
    /\ UNCHANGED <<TabWorkerVars, repo>>

\* _start_space_watchdog: nothing while the previous thread is alive, else
\* clear the Event and start a thread
WatchdogAlive == runner.watchdog \in {"test", "down", "sleep"}
StartSpaceWatchdog ==
    /\ runner.pc = "start_watchdog"
    /\ runner' = IF WatchdogAlive
                 THEN [runner EXCEPT !.pc = "frame"]
                 ELSE [runner EXCEPT !.space_watchdog_stop = FALSE, !.watchdog = "test",
                                     !.pc = "frame"]
    /\ UNCHANGED <<now, TabWorkerVars, repo>>

\* now - self._boss_lock_start_time >= self.boss_lock_timeout_sec
LockExpired(t) == t - runner.boss_lock_start_time >= boss_lock_timeout

\* _continue_boss_lock up to the first statements of _exit_boss_lock: the
\* flag is dropped and the Event of the watchdog is set. tplOk: the boss
\* template is stored with a snapshot; regionOk: the capture has a region;
\* still_here: the template is visible in the frame
ContinueBossLock(tplOk, regionOk, still_here) ==
    /\ runner.pc = "frame"
    /\ runner.in_boss_lock
    /\ \E d \in clock_steps : now' = now + d
    /\ InHorizon(now')
    /\ runner' = IF ~tplOk \/ ~regionOk \/ LockExpired(now') \/ ~still_here
                 THEN [runner EXCEPT !.in_boss_lock = FALSE, !.space_watchdog_stop = TRUE,
                                     !.pc = "key_up"]
                 ELSE runner
    /\ UNCHANGED <<TabWorkerVars, repo>>

\* the rest of _exit_boss_lock: keyUp('space') in a try, the start time reset.
\* upOk: the injection did not throw
ExitKeyUp(upOk) ==
    /\ runner.pc = "key_up"
    /\ runner' = [runner EXCEPT !.space = IF upOk THEN "up" ELSE @,
                                !.boss_lock_start_time = 0, !.pc = "frame"]
    /\ UNCHANGED <<now, TabWorkerVars, repo>>

\* _space_watchdog_loop: the test of the Event, ...
WatchdogTest ==
    /\ runner.watchdog = "test"
    /\ runner' = [runner EXCEPT !.watchdog = IF runner.space_watchdog_stop THEN "dead" ELSE "down"]
    /\ UNCHANGED <<now, TabWorkerVars, repo>>

\* ... keyDown('space') in a try (downOk: it did not throw), ...
WatchdogKeyDown(downOk) ==
    /\ runner.watchdog = "down"
    /\ runner' = [runner EXCEPT !.space = IF downOk THEN "down" ELSE @, !.watchdog = "sleep"]
    /\ UNCHANGED <<now, TabWorkerVars, repo>>

\* ... and the end of time.sleep(0.15)
WatchdogWake ==
    /\ runner.watchdog = "sleep"
    /\ runner' = [runner EXCEPT !.watchdog = "test"]
    /\ UNCHANGED <<now, TabWorkerVars, repo>>

(* ---- TeleporterTemplateRepository ---- *)

\* load_all: {} while the file does not exist, else the pickled dictionary,
\* read under the lock
Stored(file) == IF ~file.exists THEN {} ELSE file.data
RunningCalls == {c \in Callers : repo.calls[c].pc \in {"load", "save"}}

\* a thread enters save_template(template) with template.name = name
CallSaveTemplate(c, name) ==
    /\ repo.calls[c].pc = "idle"
    /\ repo' = [repo EXCEPT !.calls[c] = [pc |-> "load", name |-> name, templates |-> {}],
                            !.before = IF RunningCalls = {} THEN Stored(repo.file) ELSE @]
    /\ UNCHANGED <<now, TabWorkerVars, runner>>

\* templates = self.load_all()
LoadAll(c) ==
    /\ repo.calls[c].pc = "load"
    /\ repo' = [repo EXCEPT !.calls[c].templates = Stored(repo.file), !.calls[c].pc = "save"]
    /\ UNCHANGED <<now, TabWorkerVars, runner>>

\* templates[template.name] = template, the dictionary save_all writes
ToSave(c) == repo.calls[c].templates \cup {repo.calls[c].name}

\* self.save_all(templates): the file is rewritten under the lock
SaveAll(c) ==
    /\ repo.calls[c].pc = "save"
    /\ repo' = [repo EXCEPT !.file = [exists |-> TRUE, data |-> ToSave(c)], !.calls[c].pc = "done"]
    /\ UNCHANGED <<now, TabWorkerVars, runner>>

\* save_template has returned and the thread may call again
ReturnCall(c) ==
    /\ repo.calls[c].pc = "done"
    /\ repo' = [repo EXCEPT !.calls[c] = IdleCall]
    /\ UNCHANGED <<now, TabWorkerVars, runner>>

(* ---- pause() and resume(), called from the GUI thread ---- *)
PauseCall ==
    /\ ~paused
    /\ paused' = TRUE
    /\ UNCHANGED <<now, pc, frame, exited, should_stop, stop_pc, state, state_timer,
                   current_map_name, current_channel, checked_maps, is_initial_check,
                   ocr_disabled_until_cycle_end, locked_boss_roi, space_held, space_down,
                   boss_blacklist, ignore_stuck, clock_steps, cache_file, probe, map_priority,
                   dynamic_templates, latest_ocr_result, last_ocr_time,
                   last_target_found_time, last_scroll_time, last_scroll_finish_time,
                   last_revalidation_time, scroll_direction, scroll_count, runner, repo, workers>>

ResumeCall ==
    /\ paused
    /\ paused' = FALSE
    /\ UNCHANGED <<now, pc, frame, exited, should_stop, stop_pc, state, state_timer,
                   current_map_name, current_channel, checked_maps, is_initial_check,
                   ocr_disabled_until_cycle_end, locked_boss_roi, space_held, space_down,
                   boss_blacklist, ignore_stuck, clock_steps, cache_file, probe, map_priority,
                   dynamic_templates, latest_ocr_result, last_ocr_time,
                   last_target_found_time, last_scroll_time, last_scroll_finish_time,
                   last_revalidation_time, scroll_direction, scroll_count, runner, repo, workers>>

\* the pause branch of the loop: sleep, then back to the loop condition; the
\* clock has moved by PAUSE_SLEEP at least when the loop reads it next
TickPaused ==
    /\ pc = "tick"
    /\ ~should_stop
    /\ paused
    /\ \E d \in clock_steps : d >= PAUSE_SLEEP /\ now' = now + d
    /\ InHorizon(now')
    /\ UNCHANGED <<paused, pc, frame, exited, should_stop, stop_pc, state, state_timer,
                   current_map_name, current_channel, checked_maps, is_initial_check,
                   ocr_disabled_until_cycle_end, locked_boss_roi, space_held, space_down,
                   boss_blacklist, ignore_stuck, clock_steps, cache_file, probe, map_priority,
                   dynamic_templates, latest_ocr_result, last_ocr_time,
                   last_target_found_time, last_scroll_time, last_scroll_finish_time,
                   last_revalidation_time, scroll_direction, scroll_count, runner, repo, workers>>

(* ---- stop(), called from the GUI thread ---- *)

\* the first statement of stop(): the cache as it is now goes to disk
StopSave(out) ==
    /\ stop_pc = "idle"
    /\ cache_file' = save_cached_templates(dynamic_templates, cache_file, out)
    /\ stop_pc' = "flag"
    /\ UNCHANGED <<now, pc, frame, exited, should_stop, state, state_timer,
                   current_map_name, current_channel, checked_maps, is_initial_check,
                   ocr_disabled_until_cycle_end, locked_boss_roi, space_held, space_down,
                   boss_blacklist, ignore_stuck, paused, clock_steps, probe, map_priority, dynamic_templates,
                   latest_ocr_result, last_ocr_time, last_target_found_time,
                   last_scroll_time, last_scroll_finish_time, last_revalidation_time,
                   scroll_direction, scroll_count, runner, repo, workers>>

\* raise the flag, release space if the flag says it is held
StopCall(relOk) ==
    /\ stop_pc = "flag"
    /\ should_stop' = TRUE
    /\ space_held' = IF space_held /\ relOk THEN FALSE ELSE space_held
    /\ space_down' = IF space_held /\ relOk THEN FALSE ELSE space_down
    /\ space_held \/ relOk
    /\ stop_pc' = "wait"
    /\ UNCHANGED <<now, pc, frame, exited, state, state_timer,
                   current_map_name, current_channel, checked_maps, is_initial_check,
                   ocr_disabled_until_cycle_end, locked_boss_roi,
                   boss_blacklist, ignore_stuck, paused, clock_steps, cache_file, probe, map_priority, dynamic_templates, latest_ocr_result,
                   last_ocr_time, last_target_found_time, last_scroll_time,
                   last_scroll_finish_time, last_revalidation_time, scroll_direction, scroll_count, runner, repo,
                   workers>>

\* self.wait() returns once run() has returned
StopJoin ==
    /\ stop_pc = "wait"
    /\ pc = "done"
    /\ stop_pc' = "stopped"
    /\ UNCHANGED <<now, pc, frame, exited, should_stop, state, state_timer,
                   current_map_name, current_channel, checked_maps, is_initial_check,
                   ocr_disabled_until_cycle_end, locked_boss_roi, space_held, space_down,
                   boss_blacklist, ignore_stuck, paused, clock_steps, cache_file, probe, map_priority, dynamic_templates, latest_ocr_result,
                   last_ocr_time, last_target_found_time, last_scroll_time,
                   last_scroll_finish_time, last_revalidation_time, scroll_direction, scroll_count, runner, repo,
                   workers>>

(* ---- the next worker: BossDetectionWorker(...) without initial_templates, ---- *)
(* ---- constructed once the one before it has been stopped                 ---- *)
FreshInstance ==
    /\ stop_pc = "stopped"
    /\ pc' = "tick"
    /\ frame' = NoFrame
    /\ exited' = "no"
    /\ should_stop' = FALSE
    /\ paused' = FALSE
    /\ stop_pc' = "idle"
    /\ state' = "SCANNING"
    /\ state_timer' = 0
    /\ current_map_name' = NoMap
    /\ current_channel' = 1
    /\ checked_maps' = [m \in Maps |-> NotChecked]
    /\ is_initial_check' = FALSE
    /\ ocr_disabled_until_cycle_end' = FALSE
    /\ locked_boss_roi' = NoLock
    /\ space_held' = FALSE
    /\ boss_blacklist' = {}
    /\ dynamic_templates' = load_cached_templates(cache_file)
    /\ latest_ocr_result' = NoResult
    /\ last_ocr_time' = 0
    /\ last_target_found_time' = 0
    /\ last_scroll_time' = 0
    /\ last_scroll_finish_time' = 0
    /\ last_revalidation_time' = 0
    /\ scroll_direction' = 1
    /\ scroll_count' = 0
    /\ UNCHANGED <<runner, repo>>
    /\ UNCHANGED <<now, clock_steps, ignore_stuck, space_down, workers, cache_file, probe, map_priority>>

(* ---- the whole system ---- *)
LoopStep(FS) ==
    \/ \E f \in FS : TickIdle(f)
    \/ \E f \in FS, clickOk \in BOOLEAN, dragOk \in BOOLEAN : TickScanning(f, clickOk, dragOk)
    \/ ScrollFinish
    \/ \E f \in FS, clickOk \in BOOLEAN, clickOk2 \in BOOLEAN : TickReselecting(f, clickOk, clickOk2)
    \/ \E f \in FS : TickWaiting(f)
    \/ \E f \in FS, clickOk \in BOOLEAN : TickChecking(f, clickOk)
    \/ \E verify \in BOOLEAN, clickOk \in BOOLEAN : VerifyReturn(verify, clickOk)
    \/ \E f \in FS, relOk \in BOOLEAN : TickMonitoring(f, relOk)
    \/ \E pressOk \in BOOLEAN, relOk \in BOOLEAN : MonitorPress(pressOk, relOk)
    \/ \E f \in FS, keysOk \in BOOLEAN : TickChanging(f, keysOk)
    \/ TickPaused
    \/ LoopExit
    \/ TickRaises

WorkerStep ==
    \/ \E w \in workers : WorkerFails(w)
    \/ \E w \in workers : WorkerChecks(w)
    \/ \E w \in workers : WorkerStores(w)

StopStep ==
    \/ \E out \in SaveOutcomes : StopSave(out)
    \/ \E relOk \in BOOLEAN : StopCall(relOk)
    \/ StopJoin
    \/ FreshInstance
    \/ PauseCall
    \/ ResumeCall

Next == LoopStep(Frames) \/ WorkerStep \/ StopStep

Spec == Init /\ [][Next]_vars

(***************************************************************************)
(* Runs of the system in one kind of surroundings each.  Every behaviour   *)
(* of these is a behaviour of Spec.                                        *)
(***************************************************************************)

\* the list shows rows, targets among them; no boss is ever available and
\* there is no scroll bar: selection, cooldown and the channel cycle
ScanFrames == {[vis |-> v \cup {OTHER_TEXT}, avail |-> NoRect, scroll |-> "none"] : v \in SUBSET Maps}
InitScan == Configured(TwoTargets) /\ InitWith(TRUE, EmptyCache)
OneAtATime == Cardinality(workers') <= 1   \* recognition returns before the next dispatch
NextScan ==
    \/ \E f \in ScanFrames : TickIdle(f) /\ OneAtATime
    \/ \E f \in ScanFrames, clickOk \in BOOLEAN : TickScanning(f, clickOk, TRUE) /\ OneAtATime
    \/ \E f \in ScanFrames, clickOk \in BOOLEAN, clickOk2 \in BOOLEAN :
           TickReselecting(f, clickOk, clickOk2) /\ OneAtATime
    \/ \E f \in ScanFrames : TickWaiting(f) /\ OneAtATime
    \/ \E f \in ScanFrames : TickChecking(f, TRUE) /\ OneAtATime
    \/ \E f \in ScanFrames, keysOk \in BOOLEAN : TickChanging(f, keysOk) /\ OneAtATime
    \/ WorkerStep
SpecScan == InitScan /\ [][NextScan]_vars

\* the list never shows a target: the machine stays in SCANNING and scrolls
\* while recognition workers come and go
ScrollFrames == {[vis |-> {OTHER_TEXT}, avail |-> NoRect, scroll |-> p] : p \in ScrollPositions}
InitScroll == Configured(TwoTargets) /\ InitWith(TRUE, EmptyCache)
NextScroll ==
    \/ \E f \in ScrollFrames : TickIdle(f)
    \/ \E f \in ScrollFrames, dragOk \in BOOLEAN : TickScanning(f, TRUE, dragOk)
    \/ ScrollFinish
    \/ WorkerStep
SpecScroll == InitScroll /\ [][NextScroll]_vars

\* the first target comes into the list and goes, the scroll indicator is
\* found or not, clicks and drags may throw
ScanScrollFrames == {[vis |-> v \cup {OTHER_TEXT}, avail |-> NoRect, scroll |-> p] :
                        v \in {{}, {TwoTargets[1]}}, p \in {"none", "mid"}}
InitScanScroll == Configured(TwoTargets) /\ InitWith(TRUE, EmptyCache)
NextScanScroll ==
    \/ \E f \in ScanScrollFrames : TickIdle(f) /\ OneAtATime
    \/ \E f \in ScanScrollFrames, clickOk \in BOOLEAN, dragOk \in BOOLEAN :
           TickScanning(f, clickOk, dragOk) /\ OneAtATime
    \/ ScrollFinish
    \/ WorkerStep
SpecScanScroll == InitScanScroll /\ [][NextScanScroll]_vars

\* every target is in the list and a boss comes and goes: engagement, the
\* stuck blacklist, the channel cycle, stop() and a raising tick. A release
\* of the sustained key may throw in any tick after the one that pressed it.
EngageFrames == {[vis |-> Names, avail |-> a, scroll |-> "none"] : a \in Rects \cup {NoRect}}
InitEngage == Configured(TwoTargets) /\ \E stuck \in BOOLEAN : InitWith(stuck, Learned(RequiredTemplates))
NextEngage ==
    \/ \E f \in EngageFrames : TickIdle(f) /\ OneAtATime
    \/ \E f \in EngageFrames : TickScanning(f, TRUE, TRUE) /\ OneAtATime
    \/ \E f \in EngageFrames : TickReselecting(f, TRUE, TRUE) /\ OneAtATime
    \/ \E f \in EngageFrames : TickWaiting(f) /\ OneAtATime
    \/ \E f \in EngageFrames, clickOk \in BOOLEAN : TickChecking(f, clickOk) /\ OneAtATime
    \/ \E verify \in BOOLEAN, clickOk \in BOOLEAN : VerifyReturn(verify, clickOk)
    \/ \E f \in EngageFrames, relOk \in BOOLEAN : TickMonitoring(f, relOk) /\ OneAtATime
    \/ \E pressOk \in BOOLEAN : MonitorPress(pressOk, TRUE)
    \/ \E f \in EngageFrames : TickChanging(f, TRUE) /\ OneAtATime
    \/ LoopExit
    \/ TickRaises
    \/ WorkerStep
    \/ StopSave("written")
    \/ StopCall(TRUE)
    \/ StopJoin
SpecEngage == InitEngage /\ [][NextEngage]_vars

\* the first target is in the list when the scan selects it; after the
\* channel change the list shows its neighbour of another numeral instead
ReselectFrames == {[vis |-> {t, OTHER_TEXT}, avail |-> NoRect, scroll |-> "none"] :
                      t \in {map_priority[1], NEAR_TEXT}}
InitReselect == Configured(TwoTargets) /\ InitWith(FALSE, EmptyCache)
NextReselect ==
    \/ \E f \in ReselectFrames : TickIdle(f) /\ OneAtATime
    \/ \E f \in ReselectFrames : TickScanning(f, TRUE, TRUE) /\ OneAtATime
    \/ \E f \in ReselectFrames : TickReselecting(f, TRUE, TRUE) /\ OneAtATime
    \/ \E f \in ReselectFrames : TickWaiting(f) /\ OneAtATime
    \/ \E f \in ReselectFrames : TickChecking(f, TRUE) /\ OneAtATime
    \/ \E f \in ReselectFrames : TickChanging(f, TRUE) /\ OneAtATime
    \/ WorkerStep
SpecReselect == InitReselect /\ [][NextReselect]_vars

\* every target is in the list, a boss stays available without ever being
\* defeated, the stuck timeout is on and no injection fails; the row that is
\* no target comes and goes. The loop thread keeps ticking and every
\* recognition worker comes to its end.
StuckFrames == {[vis |-> v, avail |-> a, scroll |-> "none"] :
                   v \in {Names, Maps}, a \in Rects \cup {NoRect}}
InitStuck == Configured(TwoTargets) /\ InitWith(TRUE, Learned(RequiredTemplates))
StuckLoop ==
    \/ \E f \in StuckFrames : TickIdle(f) /\ OneAtATime
    \/ \E f \in StuckFrames : TickScanning(f, TRUE, TRUE) /\ OneAtATime
    \/ \E f \in StuckFrames : TickReselecting(f, TRUE, TRUE) /\ OneAtATime
    \/ \E f \in StuckFrames : TickWaiting(f) /\ OneAtATime
    \/ \E f \in StuckFrames : TickChecking(f, TRUE) /\ OneAtATime
    \/ VerifyReturn(TRUE, TRUE)
    \/ \E f \in StuckFrames : TickMonitoring(f, TRUE) /\ OneAtATime
    \/ MonitorPress(TRUE, TRUE)
    \/ \E f \in StuckFrames : TickChanging(f, TRUE) /\ OneAtATime
NextStuck == StuckLoop \/ WorkerStep
SpecStuck == InitStuck /\ [][NextStuck]_vars /\ WF_vars(StuckLoop) /\ WF_vars(WorkerStep)

\* calls of _find_with_template on every cache, for every key and threshold
\* of the call sites and every kind of answer of the matching primitive
Qualities == {0, FAST_THRESHOLD - 1, FAST_THRESHOLD, STRICT_THRESHOLD - 1, STRICT_THRESHOLD, 100}
Outcomes == [raises : BOOLEAN, quality : Qualities, loc : Rects]
InitQuery == Configured(TwoTargets) /\ \E keys \in SUBSET RequiredTemplates : InitWith(FALSE, Learned(keys))
NextQuery ==
    \E key \in RequiredTemplates, threshold \in {FAST_THRESHOLD, STRICT_THRESHOLD},
       out \in Outcomes : CallFind(key, threshold, out)
SpecQuery == InitQuery /\ [][NextQuery]_vars

\* every target is in the list and a boss comes and goes while the GUI thread
\* pauses and resumes the worker; no injection fails
PauseFrames == {[vis |-> Names, avail |-> a, scroll |-> "none"] : a \in Rects \cup {NoRect}}
InitPause == Configured(TwoTargets) /\ InitWith(FALSE, Learned(RequiredTemplates))
NextPause ==
    \/ \E f \in PauseFrames : TickIdle(f) /\ OneAtATime
    \/ \E f \in PauseFrames : TickScanning(f, TRUE, TRUE) /\ OneAtATime
    \/ \E f \in PauseFrames : TickReselecting(f, TRUE, TRUE) /\ OneAtATime
    \/ \E f \in PauseFrames : TickWaiting(f) /\ OneAtATime
    \/ \E f \in PauseFrames : TickChecking(f, TRUE) /\ OneAtATime
    \/ \E verify \in BOOLEAN : VerifyReturn(verify, TRUE)
    \/ \E f \in PauseFrames : TickMonitoring(f, TRUE) /\ OneAtATime
    \/ MonitorPress(TRUE, TRUE)
    \/ \E f \in PauseFrames : TickChanging(f, TRUE) /\ OneAtATime
    \/ TickPaused
    \/ WorkerStep
    \/ PauseCall
    \/ ResumeCall
SpecPause == InitPause /\ [][NextPause]_vars

\* the targets come into the list while the worker learns their templates,
\* is stopped, and a next worker is constructed from the cache file; every
\* write to the disk completes
CacheFrames == {[vis |-> v \cup {OTHER_TEXT}, avail |-> NoRect, scroll |-> "none"] : v \in SUBSET Maps}
InitCache ==
    Configured(TwoTargets) /\
    \E keys \in SUBSET {MapKey(map_priority[2]), STATUS_KEY}, odd \in SUBSET {MapKey(map_priority[2])} :
        /\ odd \subseteq keys
        /\ InitClock(FALSE, [k \in keys |-> IF k \in odd THEN OTHER_TEXT ELSE ImageOf(k)],
                     {TickStep})
FirstTicks == now' <= StartTime + 3 * TickStep
NextCache ==
    \/ \E f \in CacheFrames : TickIdle(f) /\ OneAtATime /\ FirstTicks
    \/ \E f \in CacheFrames, clickOk \in BOOLEAN :
           TickScanning(f, clickOk, TRUE) /\ OneAtATime /\ FirstTicks
    \/ \E f \in CacheFrames : TickWaiting(f) /\ OneAtATime /\ FirstTicks
    \/ WorkerStep
    \/ StopSave("written")
    \/ StopCall(TRUE)
    \/ LoopExit
    \/ StopJoin
    \/ FreshInstance
SpecCache == InitCache /\ [][NextCache]_vars

\* nothing in the list is a target and no scroll icon is found; ticks follow
\* each other at once or FineStep apart, and the loop may stay away for
\* LongStep (window not found, lines 264-269), so that the periodic
\* revalidation comes due a second time
RevalFrames == {[vis |-> {OTHER_TEXT}, avail |-> NoRect, scroll |-> "none"]}
InitReval == Configured(TwoTargets) /\ InitClock(TRUE, EmptyCache, {0, FineStep, LongStep})
\* the clock readings of these runs: the start, and a few fine steps after the long gap
AroundRevalidation == now' = StartTime \/ now' - LongStep \in StartTime..(StartTime + 4 * FineStep)
NextReval ==
    \/ \E f \in RevalFrames : TickIdle(f) /\ AroundRevalidation
    \/ \E f \in RevalFrames : TickScanning(f, TRUE, TRUE) /\ AroundRevalidation
    \/ WorkerStep
SpecReval == InitReval /\ [][NextReval]_vars

\* the same ticks around a revalidation, started with a cache that holds any of
\* the first target's template and the three status templates
OldCacheKeys == {MapKey(TwoTargets[1])} \cup StatusKeys
InitOldCache ==
    /\ Configured(TwoTargets)
    /\ \E keys \in SUBSET OldCacheKeys :
           InitClock(TRUE, [k \in keys |-> IF k \in StatusKeys THEN STATUS_TEXT ELSE ImageOf(k)],
                     {0, FineStep, LongStep})
SpecOldCache == InitOldCache /\ [][NextReval]_vars

\* the channel cycle, with one target configured or two: every target is in
\* the list, a boss comes and goes, every template is cached, and the keys
\* of a channel change may fail to go out
CycleFrames == {[vis |-> Names, avail |-> a, scroll |-> "none"] : a \in Rects \cup {NoRect}}
InitCycle ==
    \E list \in {TwoTargets, OneTarget} :
        /\ Configured(list)
        /\ InitClock(FALSE, Learned(RequiredTemplates), {0, HalfStep})
NextCycle ==
    \/ \E f \in CycleFrames : TickIdle(f) /\ OneAtATime
    \/ \E f \in CycleFrames : TickScanning(f, TRUE, TRUE) /\ OneAtATime
    \/ \E f \in CycleFrames : TickReselecting(f, TRUE, TRUE) /\ OneAtATime
    \/ \E f \in CycleFrames : TickWaiting(f) /\ OneAtATime
    \/ \E f \in CycleFrames : TickChecking(f, TRUE) /\ OneAtATime
    \/ VerifyReturn(TRUE, TRUE)
    \/ \E f \in CycleFrames : TickMonitoring(f, TRUE) /\ OneAtATime
    \/ MonitorPress(TRUE, TRUE)
    \/ \E f \in CycleFrames, keysOk \in BOOLEAN : TickChanging(f, keysOk) /\ OneAtATime
    \/ WorkerStep
SpecCycle == InitCycle /\ [][NextCycle]_vars

\* the list is on screen or the frame shows no text at all; every template
\* is cached; no injection fails; the loop keeps ticking and every
\* recognition thread runs to its end
WaitFrames == {[vis |-> v, avail |-> NoRect, scroll |-> "none"] : v \in {Names, {}}}
InitWait == Configured(TwoTargets) /\ InitWith(FALSE, Learned(RequiredTemplates))
WaitLoop ==
    \/ \E f \in WaitFrames : TickIdle(f) /\ OneAtATime
    \/ \E f \in WaitFrames : TickScanning(f, TRUE, TRUE) /\ OneAtATime
    \/ \E f \in WaitFrames : TickReselecting(f, TRUE, TRUE) /\ OneAtATime
    \/ \E f \in WaitFrames : TickWaiting(f) /\ OneAtATime
    \/ \E f \in WaitFrames : TickChecking(f, TRUE) /\ OneAtATime
    \/ \E f \in WaitFrames : TickChanging(f, TRUE) /\ OneAtATime
NextWait == WaitLoop \/ WorkerStep
SpecWait == InitWait /\ [][NextWait]_vars /\ WF_vars(WaitLoop) /\ WF_vars(WorkerStep)

\* one target configured and cached with the status template; the list
\* shows it, a boss comes and goes, the scroll indicator shows while no boss
\* does, and the keys of a channel change may fail to go out; the loop keeps
\* ticking and every recognition thread runs to its end
BlindFrames ==
    {[vis |-> Names, avail |-> a, scroll |-> "none"] : a \in Rects \cup {NoRect}}
      \cup {[vis |-> Names, avail |-> NoRect, scroll |-> "mid"]}
InitBlind == Configured(OneTarget) /\ InitClock(FALSE, Learned(RequiredTemplates), {0, HalfStep})
BlindLoop ==
    \/ \E f \in BlindFrames : TickIdle(f) /\ OneAtATime
    \/ \E f \in BlindFrames : TickScanning(f, TRUE, TRUE) /\ OneAtATime
    \/ ScrollFinish
    \/ \E f \in BlindFrames : TickReselecting(f, TRUE, TRUE) /\ OneAtATime
    \/ \E f \in BlindFrames : TickWaiting(f) /\ OneAtATime
    \/ \E f \in BlindFrames : TickChecking(f, TRUE) /\ OneAtATime
    \/ VerifyReturn(TRUE, TRUE)
    \/ \E f \in BlindFrames : TickMonitoring(f, TRUE) /\ OneAtATime
    \/ MonitorPress(TRUE, TRUE)
    \/ \E f \in BlindFrames, keysOk \in BOOLEAN : TickChanging(f, keysOk) /\ OneAtATime
NextBlind == BlindLoop \/ WorkerStep
SpecBlind == InitBlind /\ [][NextBlind]_vars /\ WF_vars(BlindLoop) /\ WF_vars(WorkerStep)

\* two targets, every template cached: the list shows its rows, a boss comes
\* and goes, the keys of a channel change may fail to go out, and while the
\* bosses are checked or the target is reselected the list may show a
\* foreign row only
EdgeFrames ==
    CycleFrames \cup {[vis |-> {OTHER_TEXT}, avail |-> NoRect, scroll |-> "none"]}
InitEdges == Configured(TwoTargets) /\ InitClock(FALSE, Learned(RequiredTemplates), {0, HalfStep})
NextEdges ==
    \/ \E f \in CycleFrames : TickIdle(f) /\ OneAtATime
    \/ \E f \in CycleFrames : TickScanning(f, TRUE, TRUE) /\ OneAtATime
    \/ \E f \in EdgeFrames : TickReselecting(f, TRUE, TRUE) /\ OneAtATime
    \/ \E f \in CycleFrames : TickWaiting(f) /\ OneAtATime
    \/ \E f \in EdgeFrames : TickChecking(f, TRUE) /\ OneAtATime
    \/ VerifyReturn(TRUE, TRUE)
    \/ \E f \in CycleFrames : TickMonitoring(f, TRUE) /\ OneAtATime
    \/ MonitorPress(TRUE, TRUE)
    \/ \E f \in CycleFrames, keysOk \in BOOLEAN : TickChanging(f, keysOk) /\ OneAtATime
    \/ WorkerStep
SpecEdges == InitEdges /\ [][NextEdges]_vars

\* two targets configured or none, nothing cached, the stuck timeout on: the
\* list shows its rows with or without an available boss, or the frame
\* shows no text at all; no injection fails
NoTargets == <<>>
GateFrames ==
    {[vis |-> Names, avail |-> a, scroll |-> "none"] : a \in Rects \cup {NoRect}}
      \cup {[vis |-> {}, avail |-> NoRect, scroll |-> "none"]}
InitGate == \E list \in {TwoTargets, NoTargets} : Configured(list) /\ InitWith(TRUE, EmptyCache)
NextGate ==
    \/ \E f \in GateFrames : TickIdle(f) /\ OneAtATime
    \/ \E f \in GateFrames : TickScanning(f, TRUE, TRUE) /\ OneAtATime
    \/ \E f \in GateFrames : TickReselecting(f, TRUE, TRUE) /\ OneAtATime
    \/ \E f \in GateFrames : TickWaiting(f) /\ OneAtATime
    \/ \E f \in GateFrames : TickChecking(f, TRUE) /\ OneAtATime
    \/ VerifyReturn(TRUE, TRUE)
    \/ \E f \in GateFrames : TickMonitoring(f, TRUE) /\ OneAtATime
    \/ MonitorPress(TRUE, TRUE)
    \/ \E f \in GateFrames : TickChanging(f, TRUE) /\ OneAtATime
    \/ WorkerStep
SpecGate == InitGate /\ [][NextGate]_vars

\* calls of _is_blacklisted while the list of a map and channel is checked,
\* the blacklist holding the one entry that the stuck exit made of a lock on
\* the first target and channel 1
LockXs == {0, 1, 5, 6, 12}
LockRects == {[x |-> x, y |-> 4, w |-> w, h |-> 6] : x \in LockXs, w \in {8, 9}}
MaxX == 40
CandidateRects ==
    {[x |-> x, y |-> y, w |-> w, h |-> 6] : x \in 0..MaxX, y \in {4, 14, 24}, w \in {8, 9}}
InitBlacklist ==
    /\ Configured(TwoTargets)
    /\ \E r0 \in LockRects : boss_blacklist = {BlacklistKey(TwoTargets[1], 1, LockOf(r0))}
    /\ current_map_name \in Maps
    /\ current_channel \in 1..num_channels
    /\ state = "CHECKING_BOSSES"
    /\ state_timer = StartTime
    /\ checked_maps = [m \in Maps |-> IF m = current_map_name THEN StartTime ELSE NotChecked]
    /\ ignore_stuck = TRUE
    /\ now = StartTime
    /\ pc = "tick"
    /\ frame = [vis |-> Names, avail |-> NoRect, scroll |-> "none"]
    /\ exited = "no"
    /\ should_stop = FALSE
    /\ paused = FALSE
    /\ clock_steps = {0, TickStep}
    /\ stop_pc = "idle"
    /\ is_initial_check = FALSE
    /\ ocr_disabled_until_cycle_end = FALSE
    /\ locked_boss_roi = NoLock
    /\ space_held = FALSE
    /\ space_down = FALSE
    /\ dynamic_templates = Learned(RequiredTemplates)
    /\ cache_file = Pickle(Dump(Learned(RequiredTemplates)))
    /\ probe = NoProbe
    /\ latest_ocr_result = Recognize(frame, StartTime)
    /\ last_ocr_time = StartTime
    /\ last_target_found_time = StartTime
    /\ last_scroll_time = 0
    /\ last_scroll_finish_time = 0
    /\ last_revalidation_time = StartTime
    /\ scroll_direction = 1
    /\ scroll_count = 0
    /\ runner = NewRunner
    /\ repo = NewRepository
    /\ workers = {}
NextBlacklist == \E r \in CandidateRects : CallIsBlacklisted(r)
SpecBlacklist == InitBlacklist /\ [][NextBlacklist]_vars

\* the TeleporterRunner alone: frames with or without a clicked boss
\* indicator, a boss template and a region that may be lost, an indicator
\* that stays or goes, key injections that may throw
NextLock ==
    \/ \E clicked \in BOOLEAN : ProcessFrame(clicked)
    \/ StartSpaceWatchdog
    \/ \E tplOk, regionOk, still_here \in BOOLEAN : ContinueBossLock(tplOk, regionOk, still_here)
    \/ \E upOk \in BOOLEAN : ExitKeyUp(upOk)
    \/ WatchdogTest
    \/ \E downOk \in BOOLEAN : WatchdogKeyDown(downOk)
    \/ WatchdogWake
InitLock == Configured(TwoTargets) /\ InitWith(FALSE, EmptyCache)
SpecLock == InitLock /\ [][NextLock]_vars

\* the TeleporterTemplateRepository alone: two threads call save_template
\* with any names, again and again
NextRepo ==
    \/ \E c \in Callers, name \in TemplateNames : CallSaveTemplate(c, name)
    \/ \E c \in Callers : LoadAll(c)
    \/ \E c \in Callers : SaveAll(c)
    \/ \E c \in Callers : ReturnCall(c)
InitRepo == Configured(TwoTargets) /\ InitWith(FALSE, EmptyCache)
SpecRepo == InitRepo /\ [][NextRepo]_vars

(***************************************************************************)
(* Properties                                                              *)
(***************************************************************************)
IndexOf(m) == CHOOSE i \in 1..Len(map_priority) : map_priority[i] = m

\* a target the tick can see: by its cached template in the frame, or by a
\* text of the current recognition result
Detectable(m, f, tpl, res) ==
    find_with_template(f, tpl, MapKey(m)) # NoRect \/ SlowMatch(res, m)

\* m was stamped and the stamp is no older than the cooldown at time t
InCooldown(m, t) == checked_maps[m] # NotChecked /\ t - checked_maps[m] <= CHECK_COOLDOWN

\* a SCANNING tick clicks a target and makes it current
Selects == state = "SCANNING" /\ state' = "WAITING_FOR_BOSS_LIST"

\* the priority indices a SCANNING tick reading the clock at t may act on
Candidates(f, t) ==
    {i \in 1..Len(map_priority) :
        /\ Detectable(map_priority[i], f, dynamic_templates, latest_ocr_result)
        /\ ~InCooldown(map_priority[i], t)}

\* C1: whenever a SCANNING tick clicks a target and makes it current, that
\* target is the detectable target outside cooldown with the lowest priority
\* index; with two or more such targets visible at once no other is chosen.
C1_LowestIndexWins ==
    [][Selects =>
          /\ current_map_name' \in Maps
          /\ IndexOf(current_map_name') \in Candidates(frame', now')
          /\ \A i \in Candidates(frame', now') : IndexOf(current_map_name') <= i]_vars

\* C1 witness: the first map was made current by a tick whose frame showed
\* both maps, the second one detectable and never checked
C1_Witness ==
    /\ state = "WAITING_FOR_BOSS_LIST"
    /\ state_timer = now
    /\ current_map_name = map_priority[1]
    /\ Maps \subseteq frame.vis
    /\ checked_maps[map_priority[2]] = NotChecked
    /\ Detectable(map_priority[2], frame, dynamic_templates, latest_ocr_result)

C2_NoStaleResultAfterScroll ==
    (pc # "drag" /\ Truthy(latest_ocr_result)) =>
        ~(latest_ocr_result.ts < last_scroll_finish_time)

\* C7: at most one recognition worker is in flight at any time.
C7_OneWorkerInFlight == Cardinality(workers) <= 1

\* C8: a result in the slot is never replaced by a result that was
\* dispatched earlier.
C8_NewerNeverOverwritten ==
    [][(Truthy(latest_ocr_result) /\ Truthy(latest_ocr_result')) =>
          latest_ocr_result'.ts >= latest_ocr_result.ts]_vars

\* C3: in every state in which the machine is not in MONITORING_BOSS the
\* sustained key is not asserted.
C3_ReleasedOutsideMonitoring == state # "MONITORING_BOSS" => ~space_down

\* C4: once the loop thread has terminated on the stop signal, the
\* sustained key is not asserted.
C4_ReleasedAfterStop == (pc = "done" /\ exited = "stop") => ~space_down

\* C5: every pass through CHANGING_CHANNEL leaves the blacklist empty.
C5_ChannelChangeClearsBlacklist ==
    [][(state = "CHANGING_CHANNEL" /\ state' # "CHANGING_CHANNEL") =>
          boss_blacklist' = {}]_vars

\* C9: the loop thread never terminates because a tick raised.
C9_LoopSurvivesException == exited # "exception"

\* C10: with stuck detection on, a tick that leaves MONITORING_BOSS after
\* the stuck timeout inserts exactly the entry keyed by the current map, the
\* current channel and the quantized lock centre, leaves the sustained key
\* released and the lock cleared, and moves to CHECKING_BOSSES; no entry is
\* inserted before the timeout has elapsed.
C10_StuckTimeout ==
    [][/\ (/\ state = "MONITORING_BOSS" /\ pc = "tick" /\ ignore_stuck
           /\ state' # "MONITORING_BOSS"
           /\ now' - state_timer > stuck_timeout) =>
              /\ boss_blacklist' = boss_blacklist \cup {StuckKey(locked_boss_roi)}
              /\ ~space_down'
              /\ locked_boss_roi' = NoLock
              /\ state' = "CHECKING_BOSSES"
       /\ boss_blacklist' # boss_blacklist =>
              state = "MONITORING_BOSS" /\ now' - state_timer > stuck_timeout]_vars

\* a step of the loop thread that is a SCANNING tick reaching the boundary
\* tests of the scroll logic: no target found for more than SCROLL_IDLE and
\* the scroll icon located in the frame. The step is seen by the clock it
\* advances or by the drag it starts.
ScrollLogicTick ==
    /\ pc = "tick" /\ state = "SCANNING" /\ Gate
    /\ now' > now \/ pc' = "drag"
    /\ state' = "SCANNING"
    /\ last_target_found_time' = last_target_found_time
    /\ now' - last_target_found_time > SCROLL_IDLE
    /\ frame'.scroll # "none"

\* C11 as stated: a SCANNING tick that finds the scroll icon in the top tenth
\* while the direction is down flips the direction to up and issues no scroll.
C11_TopWhileDownFlips ==
    [][(ScrollLogicTick /\ frame'.scroll = "top" /\ scroll_direction = 1) =>
          (scroll_direction' = -1 /\ pc' # "drag")]_vars

\* C11 amended: the direction flips only at the boundary the list is moving
\* towards (bottom while down, top while up), the flipping tick issues no
\* scroll, a tick that finds the icon at such a boundary always flips, and a
\* tick that finds it in the top tenth while the direction is down keeps the
\* direction; a scroll is never issued at the boundary being moved towards.
C11_FlipAtFacingBoundary ==
    [][/\ scroll_direction' # scroll_direction =>
            /\ pc = "tick" /\ state = "SCANNING" /\ pc' = "tick"
            /\ last_scroll_time' = last_scroll_time
            /\ \/ frame'.scroll = "bottom" /\ scroll_direction = 1 /\ scroll_direction' = -1
               \/ frame'.scroll = "top" /\ scroll_direction = -1 /\ scroll_direction' = 1
       /\ (ScrollLogicTick /\ frame'.scroll = "top" /\ scroll_direction = -1) =>
            (scroll_direction' = 1 /\ pc' = "tick")
       /\ (ScrollLogicTick /\ frame'.scroll = "bottom" /\ scroll_direction = 1) =>
            (scroll_direction' = -1 /\ pc' = "tick")
       /\ (ScrollLogicTick /\ frame'.scroll = "top" /\ scroll_direction = 1) =>
            scroll_direction' = 1]_vars

\* C11 witness: the loop is inside a drag it started on a frame with the icon
\* in the top tenth, the direction still down
C11_Witness ==
    pc = "drag" /\ frame.scroll = "top" /\ scroll_direction = 1 /\ last_scroll_time = now

\* the dispatch timestamps still visible: of the workers in flight and of
\* the result in the slot
VisibleStamps ==
    {w.ts : w \in workers} \cup (IF Truthy(latest_ocr_result) THEN {latest_ocr_result.ts} ELSE {})

\* C12: any two dispatches of the recognition worker are at least
\* OCR_INTERVAL apart, also when the periodic revalidation runs.
C12_DispatchesSpaced ==
    \A a \in VisibleStamps : \A b \in VisibleStamps : a < b => b - a >= OCR_INTERVAL

\* C13: the loop thread is never inside a call of the recognition engine.
C13_LoopNeverCallsEngine == pc # "verify"

(* C14: once stop() has returned, every template the loop learned before  *)
(* it terminated is in the cache file, with the raster it has in memory.   *)
C14_LearnedIsPersisted ==
    stop_pc = "stopped" =>
        \A k \in DOMAIN dynamic_templates :
            /\ k \in DOMAIN load_cached_templates(cache_file)
            /\ load_cached_templates(cache_file)[k] = dynamic_templates[k]

MachineState == <<state, state_timer, current_channel, current_map_name, checked_maps,
                  boss_blacklist, dynamic_templates>>
\* a worker at its store leaves in this step
Delivers(w) == w \in workers /\ w.pc = "store" /\ w \notin workers'

(* C15 as stated: while the worker is paused the loop leaves the machine   *)
(* state unchanged.                                                        *)
C15_PausedFreezesMachine == [][paused => UNCHANGED MachineState]_vars

(* C15, with the tick in progress left out: while the worker is paused and *)
(* the loop is at the top of its body, the machine state stays as it is,   *)
(* over resume() too, and a recognition worker that delivers stores its    *)
(* result in the latest-result slot.                                       *)
C15_PausedAtLoopTop ==
    [][/\ (paused /\ pc = "tick") => UNCHANGED MachineState
       /\ \A w \in workers :
              (paused /\ Delivers(w)) =>
                  latest_ocr_result' = IF Truthy(w.res) THEN w.res ELSE NoResult]_vars
\* paused at the top of the loop in the middle of an engagement cycle, while
\* a recognition worker dispatched earlier is about to store its result
C15_Witness ==
    /\ paused /\ pc = "tick"
    /\ state = "CHECKING_BOSSES"
    /\ \E w \in workers : w.pc = "store" /\ now > w.ts /\ w.res # latest_ocr_result

(* C16: whenever the slow path accepts a text for a target whose name has  *)
(* a numeral, the text has a numeral and its last numeral group is that of *)
(* the name. In SCANNING the accepted text is the one the template is cut  *)
(* from; in RESELECTING_MAP some text of the result the tick read must be  *)
(* one the rule lets through.                                              *)
SlowSelect(from) ==
    /\ state = from /\ state' = "WAITING_FOR_BOSS_LIST"
    /\ find_with_template(frame', TplAfterReval, MapKey(current_map_name')) = NoRect
C16_NumeralRuleOnAccept ==
    [][/\ SlowSelect("SCANNING") =>
              NumeralsAgree(dynamic_templates'[MapKey(current_map_name')], current_map_name')
       /\ SlowSelect("RESELECTING_MAP") =>
              \E t \in latest_ocr_result.maps :
                  RatioAbove(t, current_map_name, 8) /\ NumeralsAgree(t, current_map_name)]_vars

(* C18: _find_with_template returns a rectangle exactly when the key is in *)
(* the cache and the confidence is at least the threshold; with the key    *)
(* absent or the primitive failing it returns no match and confidence 0;   *)
(* the call leaves the cache as it was.                                    *)
C18_TryFast ==
    [][probe' # probe =>
          /\ dynamic_templates' = dynamic_templates
          /\ probe'.rect # NoRect <=>
                 /\ probe'.key \in DOMAIN dynamic_templates
                 /\ probe'.conf >= probe'.threshold
          /\ (probe'.key \in DOMAIN dynamic_templates /\ ~probe'.out.raises)
                 => probe'.conf = probe'.out.quality
          /\ (probe'.key \notin DOMAIN dynamic_templates \/ probe'.out.raises)
                 => probe'.rect = NoRect /\ probe'.conf = 0]_vars
\* a call whose confidence is just the threshold has returned the rectangle
C18_Witness ==
    /\ probe.key \in DOMAIN dynamic_templates
    /\ ~probe.out.raises
    /\ probe.out.quality = probe.threshold
    /\ probe.rect = probe.out.loc /\ probe.rect # NoRect

CheckingOverdue == state = "CHECKING_BOSSES" /\ pc = "tick" /\ now - state_timer > CHECK_TIMEOUT
C20_ChecksTimeOut == CheckingOverdue ~> state \in {"CHANGING_CHANNEL", "SCANNING", "MONITORING_BOSS"}

(* C21: while the engagement cool-down is active (OCR disabled until the   *)
(* end of the channel cycle), no step starts a recognition worker.         *)
C21_NoDispatchInCooldown ==
    [][ocr_disabled_until_cycle_end =>
          {w.ts : w \in workers'} \subseteq {w.ts : w \in workers}]_vars

(* C22: outside the engagement cool-down and with every required template *)
(* cached, a tick asks for the slow path exactly when the machine is in    *)
(* SCANNING and no target was found for more than 3.0 s, or in             *)
(* CHECKING_BOSSES more than 1.0 s after entering it: such a tick starts a *)
(* worker (at most one per OCR_INTERVAL), and no other step starts one.    *)
AllCached == RequiredTemplates \subseteq DOMAIN TplAfterReval
WatchdogFires ==
    \/ state = "SCANNING" /\ now' - last_target_found_time > SCAN_WATCHDOG
    \/ state = "CHECKING_BOSSES" /\ now' - state_timer > CHECK_WATCHDOG
StartsWorker == \E w \in workers' : w.ts \notin {v.ts : v \in workers}
TimedTick == pc = "tick" /\ ~should_stop /\ ~paused /\ now' > now
C22_WatchdogsForceSlowPath ==
    [][(~ocr_disabled_until_cycle_end /\ AllCached) =>
          /\ StartsWorker => WatchdogFires
          /\ (TimedTick /\ WatchdogFires /\ now' - OcrTimeAfterReval >= OCR_INTERVAL)
                => StartsWorker]_vars
\* a worker started by the CHECKING_BOSSES watchdog, every template cached
C22_Witness ==
    /\ state = "CHECKING_BOSSES" /\ ~ocr_disabled_until_cycle_end
    /\ RequiredTemplates \subseteq DOMAIN dynamic_templates
    /\ now - state_timer > CHECK_WATCHDOG
    /\ \E w \in workers : w.ts = now /\ w.pc = "ocr"
\* a worker started by the SCANNING watchdog, every template cached
C22_WitnessScan ==
    /\ state = "SCANNING" /\ ~ocr_disabled_until_cycle_end
    /\ RequiredTemplates \subseteq DOMAIN dynamic_templates
    /\ now - last_target_found_time > SCAN_WATCHDOG
    /\ \E w \in workers : w.ts = now /\ w.pc = "ocr"

(* C23: while the blacklist holds an entry for (map, channel, cell), no    *)
(* step taken in CHECKING_BOSSES locks onto (and so clicks) a confirmation *)
(* match, found by template or by the engine, whose centre lies in that    *)
(* cell or one of its 8 neighbours on that map and channel.                *)
Abs(n) == IF n < 0 THEN -n ELSE n
CentreCell(lock) ==
    <<(lock.min_x + ((lock.max_x - lock.min_x) \div 2)) \div GRID,
      (lock.min_y + ((lock.max_y - lock.min_y) \div 2)) \div GRID>>
NearEntry(e, lock) ==
    /\ e[1] = current_map_name /\ e[2] = current_channel
    /\ Abs(CentreCell(lock)[1] - e[3]) <= 1
    /\ Abs(CentreCell(lock)[2] - e[4]) <= 1
C23_BlacklistedNeverLocked ==
    [][(state = "CHECKING_BOSSES" /\ locked_boss_roi' # NoLock
           /\ (locked_boss_roi' # locked_boss_roi \/ state' = "MONITORING_BOSS"))
         => \A e \in boss_blacklist : ~NearEntry(e, locked_boss_roi')]_vars
\* a CHECKING_BOSSES tick without a template match has read an engine result
\* whose indicator is blacklisted on this map and channel; it has not locked
\* and has timed out into the first channel change of the cycle
C23_Witness ==
    /\ state = "CHANGING_CHANNEL" /\ pc = "tick"
    /\ state_timer = now /\ last_ocr_time = now
    /\ locked_boss_roi = NoLock
    /\ frame # NoFrame /\ frame.avail = NoRect
    /\ Truthy(latest_ocr_result) /\ latest_ocr_result.avail # NoRect
    /\ \E e \in boss_blacklist : NearEntry(e, LockOf(latest_ocr_result.avail))

(* C24: with several targets configured, the channel changes of one visit  *)
(* to a selected target go to channels 1, 2, ..., num_channels in this     *)
(* order, each once: a selection sets the cursor to 1 and marks the check  *)
(* as initial; the first CHECKING_BOSSES timeout starts the loop at        *)
(* channel 1; each later timeout moves the cursor one on while it is below *)
(* num_channels; CHANGING_CHANNEL switches to the cursor and leaves it as  *)
(* it is, as do the other states of the visit; and the machine returns to  *)
(* SCANNING from CHECKING_BOSSES only with the loop started and the cursor *)
(* at num_channels.                                                        *)
VisitStates == {"RESELECTING_MAP", "WAITING_FOR_BOSS_LIST", "MONITORING_BOSS"}
C24_ChannelsInOrder ==
    [][Len(map_priority) > 1 =>
        /\ (state = "SCANNING" /\ state' = "WAITING_FOR_BOSS_LIST")
              => current_channel' = 1 /\ is_initial_check'
        /\ (state = "CHECKING_BOSSES" /\ state' = "CHANGING_CHANNEL")
              => /\ ~is_initial_check'
                 /\ is_initial_check => current_channel' = 1
                 /\ ~is_initial_check => /\ current_channel < num_channels
                                          /\ current_channel' = current_channel + 1
        /\ (state = "CHECKING_BOSSES" /\ state' = "SCANNING")
              => ~is_initial_check /\ current_channel = num_channels
        /\ (state = "CHANGING_CHANNEL" /\ state' = "RESELECTING_MAP")
              => UNCHANGED <<current_channel, is_initial_check>>
        /\ (state \in VisitStates
              \/ (state = "CHECKING_BOSSES" /\ state' \notin {"CHANGING_CHANNEL", "SCANNING"}))
              => UNCHANGED <<current_channel, is_initial_check>>
        /\ (state \in VisitStates \cup {"CHECKING_BOSSES", "CHANGING_CHANNEL"} /\ is_initial_check)
              => current_channel = 1]_vars
\* a visit has gone through all its channels and is back in the scan
C24_Witness ==
    /\ Len(map_priority) > 1
    /\ state = "SCANNING" /\ pc = "tick"
    /\ current_map_name # NoMap /\ ~is_initial_check
    /\ checked_maps[current_map_name] = now
    /\ current_channel = 1
    /\ ~ocr_disabled_until_cycle_end
    /\ frame # NoFrame /\ frame.avail = NoRect

(* C25: a CHECKING_BOSSES timeout with the cursor at num_channels and the  *)
(* initial check done: with one target configured the cursor wraps to 1    *)
(* and the machine goes to CHANGING_CHANNEL with the same target, which is *)
(* not stamped as checked, and the machine never returns to SCANNING from  *)
(* CHECKING_BOSSES; with several targets the current target is stamped     *)
(* with the time of the tick, the cursor is reset to 1 and the machine     *)
(* goes to SCANNING.                                                       *)
LastChannelDone == state = "CHECKING_BOSSES" /\ ~is_initial_check /\ current_channel = num_channels
\* a tick that finds no indicator by template or in the fresh engine result
\* more than CHECK_TIMEOUT after the state was entered
TimesOut ==
    /\ TimedTick /\ state = "CHECKING_BOSSES"
    /\ frame'.avail = NoRect
    /\ Truthy(latest_ocr_result) /\ latest_ocr_result.avail = NoRect
    /\ last_ocr_time' > state_timer
    /\ now' - state_timer > CHECK_TIMEOUT
Wraps ==
    /\ state' = "CHANGING_CHANNEL" /\ current_channel' = 1
    /\ state_timer' = now'
    /\ UNCHANGED <<current_map_name, checked_maps>>
Exhausts ==
    /\ state' = "SCANNING" /\ current_channel' = 1
    /\ checked_maps' = [checked_maps EXCEPT ![current_map_name] = now']
    /\ UNCHANGED current_map_name
C25_LastChannelTimeout ==
    [][/\ (LastChannelDone /\ (TimesOut \/ state' \in {"CHANGING_CHANNEL", "SCANNING"}))
           => IF Len(map_priority) = 1 THEN Wraps ELSE Exhausts
       /\ (Len(map_priority) = 1 /\ state = "CHECKING_BOSSES") => state' # "SCANNING"]_vars
\* one target: the cycle has wrapped to channel 1 after the switches to
\* channels 1 and 2, the target still not stamped again
C25_Witness ==
    /\ Len(map_priority) = 1
    /\ state = "CHANGING_CHANNEL" /\ pc = "tick"
    /\ current_channel = 1 /\ ~is_initial_check
    /\ state_timer = now
    /\ now = StartTime + 6 * HalfStep
    /\ checked_maps[current_map_name] = StartTime
    /\ ~ocr_disabled_until_cycle_end /\ locked_boss_roi = NoLock
\* several targets: the last channel has timed out and the target is stamped
C25_WitnessSeveral ==
    /\ Len(map_priority) > 1
    /\ state = "SCANNING" /\ pc = "tick"
    /\ current_map_name = map_priority[1]
    /\ checked_maps[current_map_name] = now /\ now > StartTime
    /\ current_channel = 1

(* C26: the channel cursor is always between 1 and num_channels; a step    *)
(* changes it only by adding one or by setting it to 1; and it is 1 when   *)
(* the scan has just selected a target.                                    *)
C26_ChannelCursor ==
    [][/\ current_channel \in 1..num_channels
       /\ current_channel' \in 1..num_channels
       /\ current_channel' \in {current_channel, current_channel + 1, 1}
       /\ (state = "SCANNING" /\ current_map_name' # current_map_name) => current_channel' = 1
       /\ (state = "SCANNING" /\ state' = "WAITING_FOR_BOSS_LIST") => current_channel' = 1]_vars
\* the cursor has been moved on to the last channel and the machine checks there
C26_Witness ==
    /\ num_channels > 1
    /\ current_channel = num_channels /\ ~is_initial_check
    /\ state = "CHECKING_BOSSES" /\ pc = "tick"
    /\ current_map_name # NoMap

(* C27: once the machine has been in WAITING_FOR_BOSS_LIST for more than   *)
(* 0.5 s it moves to CHECKING_BOSSES, as long as the loop keeps ticking.   *)
WaitOver == state = "WAITING_FOR_BOSS_LIST" /\ pc = "tick" /\ now - state_timer > LIST_DELAY
C27_WaitingEnds == WaitOver ~> state = "CHECKING_BOSSES"
(* C27, the other half: the machine leaves WAITING_FOR_BOSS_LIST only for  *)
(* CHECKING_BOSSES and only on a tick later than 0.5 s after it entered.   *)
C27_WaitingLeavesOnlyToChecking ==
    [][(state = "WAITING_FOR_BOSS_LIST" /\ state' # state)
          => state' = "CHECKING_BOSSES" /\ now' - state_timer > LIST_DELAY]_vars
\* the delay is over and the machine has moved on to the check
C27_Witness ==
    /\ state = "CHECKING_BOSSES" /\ pc = "tick"
    /\ state_timer = now /\ now - checked_maps[current_map_name] > LIST_DELAY
    /\ is_initial_check /\ current_channel = 1

(* C28: a step taken in RESELECTING_MAP keeps the current target; it goes  *)
(* to WAITING_FOR_BOSS_LIST, to SCANNING or nowhere; when it goes to       *)
(* WAITING_FOR_BOSS_LIST without a template match, the row it clicked is   *)
(* the current target's: a text of the result it read is the target's      *)
(* name; and it goes to SCANNING only more than 5.0 s after the state was  *)
(* entered.                                                                *)
C28_ReselectsCurrentOnly ==
    [][state = "RESELECTING_MAP" =>
          /\ current_map_name' = current_map_name
          /\ state' \in {"RESELECTING_MAP", "WAITING_FOR_BOSS_LIST", "SCANNING"}
          /\ state' = "SCANNING" => now' - state_timer > RESELECT_TIMEOUT
          /\ SlowSelect("RESELECTING_MAP") => current_map_name \in latest_ocr_result.maps]_vars

(* C29: the lock is not ended by a single tick without the indicator: a    *)
(* MONITORING_BOSS tick that leaves for CHECKING_BOSSES because the         *)
(* indicator is gone (not because the boss is stuck) follows a tick on      *)
(* which the indicator was missing from the locked region too.              *)
C29_AbsenceDebounced ==
    [][(/\ state = "MONITORING_BOSS" /\ pc = "tick" /\ space_held
        /\ state' = "CHECKING_BOSSES" /\ ~IsStuck(now'))
         => ~StillAvailable(frame, dynamic_templates, latest_ocr_result, locked_boss_roi)]_vars

(* C30: the engagement keys go out once for each lock: the key block runs  *)
(* on a MONITORING_BOSS tick exactly when space_held is not set, so every  *)
(* lock must begin with space_held clear (its first tick presses the       *)
(* secondary key and holds space) and, once set, space_held must stay set  *)
(* for the rest of the lock (no later tick presses them again).            *)
C30_KeysOncePerLock ==
    [][/\ (state # "MONITORING_BOSS" /\ state' = "MONITORING_BOSS") => ~space_held'
       /\ (state = "MONITORING_BOSS" /\ state' = "MONITORING_BOSS" /\ space_held /\ ~should_stop')
             => space_held']_vars

(* C31: a scroll is started only by a SCANNING tick that finds no target,  *)
(* more than 2.0 s after a target was last found, with the scroll          *)
(* indicator located in its frame, and at least 1.0 s after the previous   *)
(* scroll was started; and a scroll that has been carried out drops the    *)
(* current recognition result and stamps the scroll-finished time.         *)
ScrollStarts == pc = "tick" /\ pc' = "drag"
DetectedByScan ==
    ScanFrom(1, frame', TplAfterReval, latest_ocr_result, PurgeExpired(checked_maps, now'))
C32_DetectionDecidesTransition ==
    [][(TimedTick /\ Gate /\ state = "SCANNING" /\ DetectedByScan.kind # "none")
         => /\ state' = "WAITING_FOR_BOSS_LIST"
            /\ current_map_name' = map_priority[DetectedByScan.idx]
            /\ checked_maps'[current_map_name'] = now'
            /\ current_channel' = 1]_vars

(* C33: a revalidation removes from the cache exactly the status entries   *)
(* other than the canonical status:dostepny and leaves every other entry   *)
(* as it is; a tick runs it only when more than REVALIDATION_INTERVAL has  *)
(* passed since the previous run; and no other tick of these runs removes  *)
(* an entry.                                                               *)
Revalidates == last_revalidation_time' # last_revalidation_time
BlindScan ==
    /\ state = "SCANNING" /\ pc = "tick" /\ ~should_stop
    /\ latest_ocr_result = NoResult
OcrDue ==
    /\ now - last_ocr_time >= OCR_INTERVAL
    /\ now - last_target_found_time > SCAN_WATCHDOG
C34_BlindScanRecovers ==
    (BlindScan /\ OcrDue /\ last_scroll_finish_time > 0)
        ~> (workers # {} \/ latest_ocr_result # NoResult)

(* C35: the state starts as SCANNING; every change of it follows one of    *)
(* the ten edges of the engagement cycle; once a target was selected a     *)
(* current map is set in every later state; and a boss region is locked    *)
(* exactly while the state is MONITORING_BOSS.                             *)
StateEdges ==
    {<<"SCANNING", "WAITING_FOR_BOSS_LIST">>,
     <<"WAITING_FOR_BOSS_LIST", "CHECKING_BOSSES">>,
     <<"CHECKING_BOSSES", "MONITORING_BOSS">>,
     <<"CHECKING_BOSSES", "CHANGING_CHANNEL">>,
     <<"CHECKING_BOSSES", "SCANNING">>,
     <<"MONITORING_BOSS", "CHECKING_BOSSES">>,
     <<"CHANGING_CHANNEL", "RESELECTING_MAP">>,
     <<"CHANGING_CHANNEL", "SCANNING">>,
     <<"RESELECTING_MAP", "WAITING_FOR_BOSS_LIST">>,
     <<"RESELECTING_MAP", "SCANNING">>}
C35_EdgesOnly ==
    /\ state = "SCANNING"
    /\ [][/\ state' # state => <<state, state'>> \in StateEdges
          /\ current_map_name # NoMap => current_map_name' # NoMap
          /\ state' # "SCANNING" => current_map_name' # NoMap
          /\ (locked_boss_roi' # NoLock) <=> (state' = "MONITORING_BOSS")]_vars
\* back in SCANNING by the tick that gave up reselecting the current map
C35_Witness ==
    /\ state = "SCANNING" /\ frame.vis = {OTHER_TEXT}
    /\ current_map_name # NoMap /\ locked_boss_roi = NoLock
\* a boss is locked
C35_WitnessLock == state = "MONITORING_BOSS" /\ locked_boss_roi # NoLock /\ space_held

(* C36: a tick that finds the recognition slot empty (no result, or a      *)
(* result with no text), or no target configured, leaves the state, the    *)
(* state timer, the channel, the per-map stamps, the blacklist, the        *)
(* locked region and the held key as they are, whatever time has passed.   *)
GateShut ==
    \/ latest_ocr_result.maps = {} /\ latest_ocr_result.avail = NoRect
    \/ Len(map_priority) = 0
TickTaken ==
    /\ pc = "tick" /\ ~should_stop
    /\ \/ now' # now \/ frame' # frame
       \/ last_ocr_time' # last_ocr_time \/ last_revalidation_time' # last_revalidation_time
C36_ShutGateNoAction ==
    [][(TickTaken /\ GateShut) =>
          /\ pc' = "tick"
          /\ UNCHANGED <<state, state_timer, current_channel, current_map_name, checked_maps,
                         boss_blacklist, locked_boss_roi, space_held, space_down,
                         is_initial_check, ocr_disabled_until_cycle_end>>]_vars
\* a boss stayed locked past the stuck timeout: the tick that read the clock
\* found the slot empty
C36_Witness ==
    /\ state = "MONITORING_BOSS" /\ pc = "tick" /\ ignore_stuck
    /\ now - state_timer > stuck_timeout
    /\ locked_boss_roi # NoLock /\ ~space_held
    /\ GateShut
\* the list delay has long passed in WAITING_FOR_BOSS_LIST
C36_WitnessWaiting ==
    /\ state = "WAITING_FOR_BOSS_LIST" /\ pc = "tick"
    /\ now - state_timer > LIST_DELAY
\* no target configured: the loop ticked and started a recognition thread
C36_WitnessNoTargets == Len(map_priority) = 0 /\ now > StartTime /\ last_ocr_time > StartTime

(* C37: the scroll direction is 1 or -1 at all times; a scroll is never    *)
(* started downward with the icon in the bottom tenth nor upward with the  *)
(* icon in the top tenth; a tick that reverses the direction starts no     *)
(* scroll; and every reversal sets the scroll counter to 0.                *)
C37_ScrollWithinBounds ==
    /\ scroll_direction \in {1, -1}
    /\ [][/\ scroll_direction' \in {1, -1}
          /\ ScrollStarts =>
                /\ scroll_direction' = scroll_direction
                /\ ~(scroll_direction = 1 /\ frame'.scroll = "bottom")
                /\ ~(scroll_direction = -1 /\ frame'.scroll = "top")
          /\ scroll_direction' # scroll_direction =>
                /\ pc' = "tick"
                /\ last_scroll_time' = last_scroll_time
                /\ scroll_count' = 0]_vars
\* scrolls were issued and counted, the icon reached the bottom, and the
\* reversal has set the counter back
C37_Witness ==
    /\ scroll_direction = -1 /\ scroll_count = 0
    /\ frame.scroll = "bottom" /\ pc = "tick"
    /\ last_scroll_finish_time > 0
\* a scroll upward is under way
C37_WitnessUp == pc = "drag" /\ scroll_direction = -1 /\ frame.scroll # "none"

(* C38: whatever lock made the one entry of the blacklist, a candidate on  *)
(* the same map and channel whose centre is at most LOCK_TOLERANCE pixels  *)
(* from the centre of that lock on both axes is blacklisted; a candidate   *)
(* whose centre is 2 * GRID pixels or more away on some axis, or that is   *)
(* asked about on another map or channel, is not; and the cell of the      *)
(* candidate's centre is the cell the stuck exit would file it under.      *)
CentreX(r) == r.x + (r.w \div 2)
CentreY(r) == r.y + (r.h \div 2)
LockCentreX(lock) == (lock.min_x + lock.max_x) \div 2
LockCentreY(lock) == (lock.min_y + lock.max_y) \div 2
Asked == probe # NoProbe
C38_BlacklistTolerance ==
    Asked =>
      /\ \A r0 \in LockRects, m \in Maps, ch \in 1..num_channels :
            LET lock == LockOf(r0)
                dx == Abs(CentreX(probe.rect) - LockCentreX(lock))
                dy == Abs(CentreY(probe.rect) - LockCentreY(lock))
                here == m = current_map_name /\ ch = current_channel
            IN /\ (BlacklistKey(m, ch, lock) \in boss_blacklist /\ here
                     /\ dx <= LOCK_TOLERANCE /\ dy <= LOCK_TOLERANCE) => probe.hit
               /\ (boss_blacklist = {BlacklistKey(m, ch, lock)}
                     /\ (~here \/ dx >= 2 * GRID \/ dy >= 2 * GRID)) => ~probe.hit
      /\ LET key == BlacklistKey(current_map_name, current_channel, LockOf(probe.rect))
         IN CellOf(probe.rect.x, probe.rect.y, probe.rect.w, probe.rect.h) = <<key[3], key[4]>>
\* a candidate exactly LOCK_TOLERANCE pixels to the right of the lock and in
\* another cell row was asked about and found blacklisted
C38_Witness ==
    /\ Asked /\ probe.hit
    /\ \E r0 \in LockRects :
          /\ boss_blacklist = {BlacklistKey(current_map_name, current_channel, LockOf(r0))}
          /\ CentreX(probe.rect) - LockCentreX(LockOf(r0)) = LOCK_TOLERANCE
          /\ CentreY(probe.rect) - LockCentreY(LockOf(r0)) = LOCK_TOLERANCE
\* a candidate 2 * GRID pixels away on one axis was asked about and not found
C38_WitnessFar ==
    /\ Asked /\ ~probe.hit
    /\ \E r0 \in LockRects :
          /\ boss_blacklist = {BlacklistKey(current_map_name, current_channel, LockOf(r0))}
          /\ CentreX(probe.rect) - LockCentreX(LockOf(r0)) = 2 * GRID
          /\ CentreY(probe.rect) = LockCentreY(LockOf(r0))
\* the same rectangle as the lock, asked about on another channel
C38_WitnessOtherChannel ==
    /\ Asked /\ ~probe.hit /\ current_channel # 1
    /\ boss_blacklist = {BlacklistKey(current_map_name, 1, LockOf(probe.rect))}

(* C39: the space watchdog issues no keyDown('space') once boss lock has   *)
(* ended and the keyUp of the exit is behind the frame thread; and a frame *)
(* processed in boss lock when boss_lock_timeout has passed since the      *)
(* start of the lock ends the lock.                                        *)
WatchdogPresses == runner.watchdog = "down" /\ runner'.watchdog = "sleep"
LockFrame ==
    /\ runner.in_boss_lock /\ runner.pc = "frame"
    /\ now' # now \/ runner'.pc = "key_up"
C39_SpaceStaysReleased ==
    [][/\ WatchdogPresses => (runner.in_boss_lock \/ runner.pc = "key_up")
       /\ (LockFrame /\ now' - runner.boss_lock_start_time >= boss_lock_timeout)
             => ~runner'.in_boss_lock]_vars
\* the timeout half alone
C39_TimeoutEndsLock ==
    [][(LockFrame /\ now' - runner.boss_lock_start_time >= boss_lock_timeout)
          => ~runner'.in_boss_lock]_vars
C39_WitnessTimeout ==
    /\ ~runner.in_boss_lock /\ runner.pc = "key_up"
    /\ now - runner.boss_lock_start_time = boss_lock_timeout

(* C40: when the calls of save_template that ran together have all         *)
(* returned, the file holds the name each of them saved and every name it  *)
(* held before they began.                                                 *)
AllReturned == \A c \in Callers : repo.calls[c].pc = "done"
C40_NoLostUpdate ==
    (AllReturned /\ repo.calls["c1"].name # repo.calls["c2"].name)
        => (repo.before \cup {repo.calls[c].name : c \in Callers}) \subseteq Stored(repo.file)

====
